---- MODULE Spec2Model ----
(***************************************************************************)
(* Manwe resource/session layer: field descriptors, dirty tracking of      *)
(* Resource, the transport adapter Session.request with its error mapping, *)
(* and the cursor of ResourceCollection.                                   *)
(*                                                                         *)
(* The specifications share the variables:                                 *)
(*   Spec            one Resource (get, field assignment, save, refresh)   *)
(*   SpecRequest     Session.request applied to every kind of response     *)
(*   SpecEncoding    the body Session.request sends with data and files    *)
(*   SpecCollection  one ResourceCollection over a mutable server listing  *)
(*   SpecFetch       the same, with page requests answered by an error     *)
(*   SpecPages       the same, with short pages and failing transport      *)
(*   SpecErrors      a Resource and a collection under failing requests    *)
(*   SpecEquality    == and != on two Resource objects                     *)
(*   SpecFilters     one SampleCollection with filters                     *)
(*   SpecEndpoints   the endpoint lookups of a new Session                 *)
(*   SpecTask        one Annotation, a resource with a task                *)
(*   SpecAssign      assignments to declared and undeclared attributes     *)
(*   SpecRoundTrip   from_python followed by to_python on field values     *)
(***************************************************************************)
EXTENDS Integers, Sequences, FiniteSets, TLC

VARIABLES
    kind,         \* Resource.key of the resource: "sample" or "user"
    r_values,     \* Resource._values: field name -> API (wire) value
    r_dirty,      \* Resource._dirty: names of the dirty fields
    srv,          \* the server's representation of the resource
    sent,         \* the requests the last operation handed to the transport
    last,         \* the last operation on the resource and how it ended
    assigned,     \* a mutable field was assigned since the resource was last
                  \* loaded, created, saved or refreshed
    rq,           \* the last call of Session.request and its outcome
    items,        \* the server's collection: the ids it holds, in id order
    c_live,       \* a ResourceCollection object exists
    c_next,       \* ResourceCollection._next (NoneNext for None)
    c_resources,  \* ResourceCollection._resources, the buffered items
    c_size,       \* ResourceCollection.size
    c_out,        \* the last collection operation and how it ended
    yielded,      \* the items next() returned since construction or reset()
    changed,      \* how often the server collection changed since the
                  \* construction or the last reset()
    c_fresh,      \* reset() was not called on the collection object yet
    c_values,     \* ResourceCollection._values: filter name -> API value
    c_sent,       \* the requests the last collection operation handed to
                  \* the transport
    requested,    \* the page requests since the construction or the last
                  \* reset(): the offset of each and whether it was served
    answered,     \* what the transport gave for the requests of the last
                  \* operation on the resource, in the order of the requests
    c_args,       \* the filter arguments the collection was constructed with
    cached_uris,  \* Session._cached_uris holds the map of the root document
    cmp,          \* the last comparison of two Resource objects
    page_mode,    \* how the server and the transport treat a page request
    stayed,       \* the items the server's collection has held without a
                  \* break since the construction or the last reset()
    trip          \* the last conversion of a Python value to its API value
                  \* and back

vars == <<kind, r_values, r_dirty, srv, sent, last, assigned, rq,
          items, c_live, c_next, c_resources, c_size, c_out, yielded, changed,
          c_fresh, c_values, c_args, c_sent, requested, answered, cached_uris,
          cmp, page_mode, stayed, trip>>

r_vars == <<kind, r_values, r_dirty, srv, sent, last, assigned, answered>>
c_vars == <<items, c_live, c_next, c_resources, c_size, c_out, yielded, changed,
            c_fresh, c_values, c_args, c_sent, requested, stayed>>
\* The session's own state and the comparison.
s_vars == <<rq, cached_uris, cmp, page_mode, trip>>

----------------------------------------------------------------------------
(* Bounds *)

\* The scalar values of a field are the atoms 1..MaxAtom.
MaxAtom == 2
\* Most items the server collection ever holds.
MaxItems == 5
\* Most changes of the server collection during one life of the cursor.
MaxChanges == 1
\* session.config.COLLECTION_CACHE_SIZE, the page size of a collection.
cache_size == 2
\* Most page requests in one life of the cursor.
MaxRequests == 4

Atoms == 1..MaxAtom

\* The members of a Set field (role names, URIs of groups): two distinct
\* ones show order and repetition.
Members == {1, 2}

----------------------------------------------------------------------------
(* Values.  A value is [t, m, e]: its type, the type of its members (for a  *)
(* container) and its content as a sequence of atoms.  API values are what  *)
(* json carries (None, scalars, lists, objects); Python values also include *)
(* set, frozenset, Resource and datetime objects.                           *)

None == [t |-> "none", m |-> "-", e |-> <<>>]
Scalar(a) == [t |-> "scalar", m |-> "-", e |-> <<a>>]
UriObject(u) == [t |-> "dict", m |-> "-", e |-> <<u>>]
ResourceObject(u) == [t |-> "resource", m |-> "-", e |-> <<u>>]
\* A datetime.datetime: the second a and the microsecond us of its wall
\* clock and its tzinfo, "-" for None (a naive datetime).
DateTime(a, us, tz) == [t |-> "datetime", m |-> tz, e |-> <<a, us>>]
List(m, q) == [t |-> "list", m |-> m, e |-> q]

Range(q) == {q[i] : i \in DOMAIN q}

Min(a, b) == IF a < b THEN a ELSE b

RECURSIVE SortedSeq(_)
SortedSeq(S) ==
    IF S = {} THEN <<>>
    ELSE LET x == CHOOSE y \in S : \A z \in S : y <= z
         IN <<x>> \o SortedSeq(S \ {x})

\* The empty string, and the Python booleans.
EmptyString == [t |-> "scalar", m |-> "-", e |-> <<0>>]
Bool(b) == [t |-> "bool", m |-> "-", e |-> <<IF b THEN 1 ELSE 0>>]

\* The truth value Python gives a value in `if`, `and`, `not` and assert.
Truthy(v) ==
    CASE v.t = "none" -> FALSE
      [] v.t = "bool" -> v.e = <<1>>
      [] v.t = "scalar" -> v.e # <<0>>
      [] v.t \in {"list", "set", "frozenset"} -> v.e # <<>>
      [] OTHER -> TRUE

PySet(m, S) == [t |-> "set", m |-> m, e |-> SortedSeq(S)]
FrozenSet(m, S) == [t |-> "frozenset", m |-> m, e |-> SortedSeq(S)]

\* tzinfo.utcoffset, in the seconds of the model's clock: the caller's
\* tzinfo objects "UTC" and "FixedOffset1" and dateutil's tzutc() and
\* tzoffset(None, 1).
UtcOffset(tz) == IF tz \in {"FixedOffset1", "tzoffset1"} THEN 1 ELSE 0

\* Python's == on two values: a set and a frozenset with the same members
\* are equal, a list never equals a set, Resources compare by URI, two
\* naive datetimes compare by their wall clock and two aware ones by their
\* instant, whatever their tzinfo objects.
PyEq(a, b) ==
    IF a.t \in {"set", "frozenset"} /\ b.t \in {"set", "frozenset"}
    THEN a.e = b.e /\ (a.e = <<>> \/ a.m = b.m)
    ELSE IF a.t = "datetime" /\ b.t = "datetime"
    THEN /\ (a.m = "-") = (b.m = "-")
         /\ a.e[1] - UtcOffset(a.m) = b.e[1] - UtcOffset(b.m)
         /\ a.e[2] = b.e[2]
    ELSE a.t = b.t /\ a.m = b.m /\ a.e = b.e

\* One annotation query, the name n and the expression x, is n * 10 + x.
QueryName(q) == q \div 10

\* A dict of queries, name -> expression: its items in the order of the
\* names.
QueryDict(S) == [t |-> "querydict", m |-> "-", e |-> SortedSeq(S)]

\* Before any conversion.
NoTrip ==
    [stage |-> "-", field |-> "-", x |-> [t |-> "none", m |-> "-", e |-> <<>>],
     wire |-> [t |-> "none", m |-> "-", e |-> <<>>],
     back |-> [t |-> "none", m |-> "-", e |-> <<>>]]

\* json.dumps accepts None, booleans, scalars, lists and objects and raises
\* TypeError on a set, a frozenset, a Resource or a datetime.
JsonEncodable(v) ==
    /\ v.t \in {"none", "bool", "scalar", "list", "dict"}
    /\ v.t = "list" => v.m \in {"scalar", "dict", "query"}

----------------------------------------------------------------------------
(* Field descriptors (fields.py) and the fields of the modelled kinds.      *)

Kinds == {"sample", "user"}

\* The fields of an annotation include the hidden ones, which are the
\* arguments of its creation.
FieldsOf(k) ==
    CASE k = "sample" -> {"uri", "user", "name", "groups", "added"}
      [] k = "user" -> {"uri", "login", "name", "roles", "added"}
      [] k = "annotation" ->
             {"uri", "original_data_source", "annotated_data_source", "task",
              "data_source", "name", "queries"}

FieldType(f) ==
    CASE f \in {"uri", "name", "login"} -> "String"
      [] f \in {"user", "original_data_source", "annotated_data_source",
                "data_source"} -> "Link"
      [] f = "task" -> "Task"
      [] f = "queries" -> "Queries"
      [] f = "added" -> "DateTime"
      [] f \in {"groups", "roles"} -> "Set"
      [] f = "public" -> "Boolean"

\* The member field of a Set field.
SetMember(f) == IF f = "groups" THEN "Link" ELSE "String"

\* Field.mutable and Field.hidden of the field f of the present kind.
Mutable(f) == kind # "annotation" /\ f \in {"name", "groups", "roles"}

Hidden(f) == kind = "annotation" /\ f \in {"data_source", "name", "queries"}

\* Field.key: no field of these kinds overrides it, so it is the name.
Key(f) == f

\* Field.default, from_python(None).
Default(f) == None

\* Link.to_python on one API value: the object form {"uri": u} of response
\* data and the string form of request data both give the Resource that
\* the session's accessor returns for the URI.
LinkToPython(v) ==
    IF v.t = "none" THEN None ELSE ResourceObject(v.e[1])

\* DateTime.to_python: dateutil.parser.parse on an ISO 8601 string.  The
\* string is a scalar whose content is the second and, when the string has
\* a fraction, the microsecond, and whose m is the offset it ends with
\* ("-" for none).  A string without fraction gives microsecond 0, one
\* without offset a naive datetime, the offset "+00:00" tzutc() and every
\* other offset a tzoffset.
DateTimeToPython(v) ==
    IF v.t = "none" THEN None
    ELSE DateTime(v.e[1], IF Len(v.e) > 1 THEN v.e[2] ELSE 0,
                  CASE v.m = "+00:00" -> "tzutc"
                    [] v.m = "+01:00" -> "tzoffset1"
                    [] OTHER -> "-")

\* Queries.to_python: {q['name']: q['expression'] for q in value}, where
\* the last query of a name is the one that stays.
QueriesToPython(v) ==
    IF v.t = "none" THEN None
    ELSE QueryDict({v.e[i] : i \in {j \in DOMAIN v.e :
                        \A k \in DOMAIN v.e :
                            k > j => QueryName(v.e[k]) # QueryName(v.e[j])}})

\* A Set.to_python that gives a set, which has add and remove.
SetToPythonMutable(f, v) ==
    IF v.t = "none" THEN None
    ELSE PySet(IF SetMember(f) = "Link" THEN "resource" ELSE v.m, Range(v.e))

\* Set.to_python: a frozenset of the converted members.
SetToPython(f, v) ==
    IF v.t = "none" THEN None
    ELSE FrozenSet(IF SetMember(f) = "Link" THEN "resource" ELSE v.m, Range(v.e))

to_python(f, v) ==
    CASE FieldType(f) = "Link" -> LinkToPython(v)
      [] FieldType(f) = "DateTime" -> DateTimeToPython(v)
      [] FieldType(f) = "Set" -> SetToPython(f, v)
      [] FieldType(f) = "Queries" -> QueriesToPython(v)
      [] OTHER -> v

\* Link.from_python: the URI of the Resource.
LinkFromPython(v) ==
    IF v.t = "none" THEN None ELSE Scalar(v.e[1])

\* A DateTime.from_python that formats the whole seconds only.
DateTimeFromPythonSeconds(v) ==
    IF v.t = "none" THEN None
    ELSE [t |-> "scalar",
          m |-> CASE v.m = "-" -> "-"
                  [] UtcOffset(v.m) = 0 -> "+00:00"
                  [] OTHER -> "+01:00",
          e |-> <<v.e[1]>>]

\* DateTime.from_python: datetime.isoformat(), which leaves the fraction
\* out when the microsecond is 0 and the offset out when the datetime is
\* naive.
DateTimeFromPython(v) ==
    IF v.t = "none" THEN None
    ELSE [t |-> "scalar",
          m |-> CASE v.m = "-" -> "-"
                  [] UtcOffset(v.m) = 0 -> "+00:00"
                  [] OTHER -> "+01:00",
          e |-> IF Len(v.e) > 1 /\ v.e[2] # 0 THEN <<v.e[1], v.e[2]>>
                ELSE <<v.e[1]>>]

\* Queries.from_python: one {'name': k, 'expression': v} for every item of
\* the dict, in the order the dict gives its items.
QueriesFromPython(v) ==
    IF v.t = "none" THEN None ELSE List("query", v.e)

\* Set.from_python: the list of the converted members, in iteration order.
SetFromPython(f, v) ==
    IF v.t = "none" THEN None
    ELSE List(IF SetMember(f) = "Link" THEN "scalar" ELSE v.m, v.e)

from_python(f, v) ==
    CASE FieldType(f) = "Link" -> LinkFromPython(v)
      [] FieldType(f) = "DateTime" -> DateTimeFromPython(v)
      [] FieldType(f) = "Set" -> SetFromPython(f, v)
      [] FieldType(f) = "Queries" -> QueriesFromPython(v)
      [] OTHER -> v

----------------------------------------------------------------------------
(* Session.request and Session._response_error (session.py).                *)

\* The statuses the server answers with.
Statuses == {200, 201, 202, 206, 400, 401, 403, 404, 406, 416, 500}

\* response.text[:78]
MessageLimit == 78

\* The responses.  What the body holds: "error" is the JSON object
\* {"error": {"code": c, "message": m}}, "nokeys" is JSON without these
\* keys, "notjson" is not parseable as JSON, "json" is a representation.
\* len is the length of response.text, around the limit.
Responses ==
    [status : Statuses, body : {"error", "nokeys", "notjson", "json"},
     code : Atoms, message : Atoms,
     len : {0, MessageLimit - 1, MessageLimit, MessageLimit + 1}]

\* One exchange as the transport sees it: ok is FALSE when
\* requests.request raises a RequestException.
Exchanges == [ok : BOOLEAN, resp : Responses]

NoInfo == [src |-> "-", v |-> 0]

\* How a call of Session.request ends.  sent: requests.request was called;
\* attempts: how often it was called.
Returned(resp) ==
    [exc |-> "none", code |-> NoInfo, message |-> NoInfo, sent |-> TRUE,
     returned |-> TRUE, response |-> resp, attempts |-> 1]

Raised(e, c, m, s, resp) ==
    [exc |-> e, code |-> c, message |-> m, sent |-> s,
     returned |-> FALSE, response |-> resp,
     attempts |-> IF s THEN 1 ELSE 0]

\* Session._api_errors: a defaultdict that gives ApiError for every status
\* it has no entry for.
api_errors(status) ==
    CASE status = 400 -> "BadRequestError"
      [] status = 401 -> "UnauthorizedError"
      [] status = 403 -> "ForbiddenError"
      [] status = 404 -> "NotFoundError"
      [] OTHER -> "ApiError"

\* Session._response_error.  `except KeyError, ValueError:` is Python 2 for
\* "catch KeyError and bind it to the name ValueError": the missing keys of
\* a "nokeys" body are caught, the ValueError of response.json() on a body
\* that is not JSON is not.
response_error(resp) ==
    CASE resp.body = "error" ->
             Raised(api_errors(resp.status),
                    [src |-> "body", v |-> resp.code],
                    [src |-> "body", v |-> resp.message], TRUE, resp)
      [] resp.body = "notjson" ->
             Raised("ValueError", NoInfo, NoInfo, TRUE, resp)
      [] OTHER ->
             Raised(api_errors(resp.status),
                    [src |-> "reason", v |-> resp.status],
                    [src |-> "text", v |-> Min(resp.len, MessageLimit)],
                    TRUE, resp)

\* The statuses Session.request returns the response for.
success_status == {200, 201, 202}

\* Session.request with a second call of requests.request after a
\* transport failure.
request_retries(data, x) ==
    IF \E k \in DOMAIN data : ~JsonEncodable(data[k])
    THEN Raised("TypeError", NoInfo, NoInfo, FALSE, x.resp)
    ELSE IF ~x.ok
    THEN [Raised("RequestException", NoInfo, NoInfo, TRUE, x.resp)
              EXCEPT !.attempts = 2]
    ELSE IF x.resp.status \in success_status
    THEN Returned(x.resp)
    ELSE response_error(x.resp)

\* Session.request(method, uri, data=data) when no `files` are passed:
\* json.dumps(data) raises TypeError before anything is sent; a transport
\* failure is re-raised; a success status returns the response; every
\* other status goes to _response_error.
request(data, x) ==
    IF \E k \in DOMAIN data : ~JsonEncodable(data[k])
    THEN Raised("TypeError", NoInfo, NoInfo, FALSE, x.resp)
    ELSE IF ~x.ok
    THEN Raised("RequestException", NoInfo, NoInfo, TRUE, x.resp)
    ELSE IF x.resp.status \in success_status
    THEN Returned(x.resp)
    ELSE response_error(x.resp)

NoData == [k \in {} |-> None]

\* Session.request called directly, on any exchange.
\* The keyword arguments Session.request hands to requests.request for a
\* call with or without `data` and with `files` not passed ("absent"),
\* passed as None ("none") or passed with a file ("payload"): the data are
\* dumped to JSON, with the JSON content type, when `data` is among the
\* keyword arguments and `files` is not.
request_kwargs(has_data, files) ==
    IF has_data /\ files = "absent"
    THEN [data |-> "json", files |-> files,
          content_type |-> "application/json"]
    ELSE [data |-> IF has_data THEN "dict" ELSE "absent", files |-> files,
          content_type |-> "-"]

\* What requests.request puts on the wire for these keyword arguments: a
\* string as it is; a dict with files as the fields of a multipart form; a
\* dict without files (files None or not passed) as a urlencoded form.
wire_body(kw) ==
    CASE kw.data = "json" ->
             [body |-> "json", content_type |-> kw.content_type]
      [] kw.files = "payload" ->
             [body |-> "multipart", content_type |-> "multipart/form-data"]
      [] kw.data = "dict" ->
             [body |-> "form",
              content_type |-> "application/x-www-form-urlencoded"]
      [] OTHER -> [body |-> "empty", content_type |-> "-"]

\* Session.request called directly, on any exchange.
Request(x) ==
    /\ rq' = [called |-> TRUE, ok |-> x.ok, resp |-> x.resp,
              out |-> request(NoData, x),
              via |-> "request", data |-> FALSE, files |-> "absent",
              wire |-> wire_body(request_kwargs(FALSE, "absent"))]
    /\ UNCHANGED <<r_vars, c_vars, cached_uris, cmp, page_mode, trip>>

\* The values of a data source that is created: name, filetype and
\* gzipped, and local_file when one is given.
PostData(local_file) ==
    IF local_file
    THEN [name |-> Scalar(1), filetype |-> Scalar(1), gzipped |-> Bool(FALSE),
          local_file |-> Scalar(1)]
    ELSE [name |-> Scalar(1), filetype |-> Scalar(1), gzipped |-> Bool(FALSE)]

\* Session.request(method, uri, data=..., files=...) called directly.
RequestWith(has_data, files, x) ==
    /\ rq' = [called |-> TRUE, ok |-> x.ok, resp |-> x.resp,
              out |-> request(IF has_data THEN PostData(FALSE) ELSE NoData, x),
              via |-> "request", data |-> has_data, files |-> files,
              wire |-> wire_body(request_kwargs(has_data, files))]
    /\ UNCHANGED <<r_vars, c_vars, cached_uris, cmp, page_mode, trip>>

\* Session.add_data_source(name, filetype, data=stream, local_file=...):
\* `files` is always passed to post, as None when no stream is given.
AddDataSource(stream, local_file, x) ==
    LET files == IF stream THEN "payload" ELSE "none"
    IN /\ rq' = [called |-> TRUE, ok |-> x.ok, resp |-> x.resp,
                 out |-> request(PostData(local_file), x),
                 via |-> "add_data_source", data |-> TRUE, files |-> files,
                 wire |-> wire_body(request_kwargs(TRUE, files))]
       /\ UNCHANGED <<r_vars, c_vars, cached_uris, cmp, page_mode, trip>>

\* The POST of DataSource.create(session, name, filetype, data=stream,
\* local_file=...): Resource.create passes `files` on only when it is not
\* empty.
DataSourceCreate(stream, local_file, x) ==
    LET files == IF stream THEN "payload" ELSE "absent"
    IN /\ rq' = [called |-> TRUE, ok |-> x.ok, resp |-> x.resp,
                 out |-> request(PostData(local_file), x),
                 via |-> "create", data |-> TRUE, files |-> files,
                 wire |-> wire_body(request_kwargs(TRUE, files))]
       /\ UNCHANGED <<r_vars, c_vars, cached_uris, cmp, page_mode, trip>>

----------------------------------------------------------------------------
(* Resource (resources.py).                                                 *)

\* The URI of the modelled resource.
OwnUri == 1

\* The lists assigned to a Set field: the empty list, the lists of one
\* member and the lists of two members (in both orders, and a member twice).
Lists(m) ==
    {List(m, <<>>)} \cup {List(m, <<a>>) : a \in Members}
        \cup {List(m, <<a, b>>) : a \in Members, b \in Members}
Sets(m) == {PySet(m, S) : S \in SUBSET Members}

\* The Python values a caller assigns to a field.
PyInputs(f) ==
    CASE FieldType(f) = "Link" -> {ResourceObject(2)}
      [] FieldType(f) = "DateTime" -> {DateTime(2, 0, "-")}
      [] FieldType(f) = "Set" ->
             LET m == IF SetMember(f) = "Link" THEN "resource" ELSE "scalar"
             IN {None} \cup Lists(m) \cup Sets(m)
      [] OTHER -> IF Mutable(f) THEN {None} \cup {Scalar(a) : a \in Atoms}
                  ELSE {Scalar(2)}

\* The representations the server holds for a resource of kind k when the
\* session first gets it.
Representations(k) ==
    IF k = "sample"
    THEN {[uri |-> Scalar(OwnUri), user |-> UriObject(1), name |-> Scalar(a),
           groups |-> List("dict", q), added |-> Scalar(1)] :
              a \in Atoms, q \in {<<>>, <<1>>}}
    ELSE {[uri |-> Scalar(OwnUri), login |-> Scalar(1), name |-> Scalar(a),
           roles |-> List("scalar", q), added |-> Scalar(1)] :
              a \in Atoms, q \in {<<>>, <<1>>}}

\* A _load_values that keeps only the keys the representation holds.
load_values_present(k, rep) ==
    [f \in {g \in FieldsOf(k) : Key(g) \in DOMAIN rep} |-> rep[Key(f)]]

\* Resource._load_values: the API value of every declared field, the
\* field's default where the representation has no such key.
load_values(k, rep) ==
    [f \in FieldsOf(k) |->
        IF Key(f) \in DOMAIN rep THEN rep[Key(f)] ELSE Default(f)]

\* ResourceMeta._getter: getter_for_field.
getter(f) == to_python(f, r_values[f])

\* Resource.dirty
dirty == r_dirty # {}

\* The record of an operation: the field and value of an assignment, the
\* exception it ended with, the dirty set it started from, for an
\* assignment, whether the field already held the assigned value, and for
\* a save() or refresh() the fields whose stored value was not the server's
\* when it began.
Op(op, f, v, e) ==
    [op |-> op, field |-> f, value |-> v, exc |-> e, pre |-> r_dirty,
     same |-> IF op = "set" THEN r_values[f] = from_python(f, v) ELSE FALSE,
     stale |-> IF op \in {"save", "refresh"}
               THEN {g \in FieldsOf(kind) :
                        r_values[g] # load_values(kind, srv)[g]}
               ELSE {}]

Get(method, uri) == [method |-> method, uri |-> uri, data |-> NoData]
Patch(uri, data) == [method |-> "PATCH", uri |-> uri, data |-> data]

\* What the server answers to a request for the resource: 200, a status
\* that request does not return (with a structured error body), or
\* nothing because the transport fails.
Answer(ok, status) ==
    [ok |-> ok,
     resp |-> [status |-> status, body |-> "error", code |-> 1, message |-> 1,
               len |-> 0]]

Answers ==
    {Answer(TRUE, 200), Answer(TRUE, 206), Answer(FALSE, 200)}

\* Session.sample / Session.user: get the resource by URI.
GetByUri(x) ==
    LET out == request(NoData, x)
    IN /\ sent' = <<Get("GET", OwnUri)>>
       /\ last' = Op("get", "-", None, out.exc)
       /\ IF out.returned
          THEN /\ r_values' = load_values(kind, srv)
               /\ r_dirty' = {}
               /\ assigned' = FALSE
          ELSE UNCHANGED <<r_values, r_dirty, assigned>>
       /\ answered' = <<x>>
       /\ UNCHANGED <<kind, srv, s_vars, c_vars>>

\* A setter that marks the field dirty only when the value changes.
setter_if_changed(f, v) ==
    IF Mutable(f) /\ ~Hidden(f)
    THEN /\ r_dirty' = IF r_values[f] = from_python(f, v) THEN r_dirty
                       ELSE r_dirty \cup {f}
         /\ r_values' = [r_values EXCEPT ![f] = from_python(f, v)]
         /\ last' = Op("set", f, v, "none")
         /\ assigned' = TRUE
    ELSE /\ UNCHANGED <<r_values, r_dirty, assigned>>
         /\ last' = Op("set", f, v, "AttributeError")

\* A setter on every field, mutable or not.
setter_any_field(f, v) ==
    /\ r_dirty' = r_dirty \cup {f}
    /\ r_values' = [r_values EXCEPT ![f] = from_python(f, v)]
    /\ last' = Op("set", f, v, "none")
    /\ assigned' = TRUE

\* Whether from_python of the field returns for the value: Link.from_python
\* reads value.uri, which only a Resource has, and Set.from_python converts
\* every member with the from_python of its member field.
Convertible(f, v) ==
    CASE FieldType(f) = "Link" -> v.t \in {"none", "resource"}
      [] FieldType(f) = "Set" ->
             \/ v.t = "none"
             \/ SetMember(f) # "Link"
             \/ v.m = "resource"
             \/ v.e = <<>>
      [] OTHER -> TRUE

\* ResourceMeta._setter: setter_for_field, for a mutable field that is not
\* hidden, adds the name to _dirty and then stores from_python(value); when
\* from_python raises, the name is in _dirty and the stored value is the
\* old one.  The property of an immutable field has no setter and the
\* assignment raises AttributeError.  A hidden field gets no property: the
\* assignment makes an attribute of the instance and touches neither
\* _values nor _dirty.
setter_for_field(f, v) ==
    IF Hidden(f)
    THEN /\ UNCHANGED <<r_values, r_dirty, assigned>>
         /\ last' = Op("set", f, v, "none")
    ELSE IF ~Mutable(f)
    THEN /\ UNCHANGED <<r_values, r_dirty, assigned>>
         /\ last' = Op("set", f, v, "AttributeError")
    ELSE IF ~Convertible(f, v)
    THEN /\ r_dirty' = r_dirty \cup {f}
         /\ assigned' = TRUE
         /\ UNCHANGED r_values
         /\ last' = Op("set", f, v, "AttributeError")
    ELSE /\ r_dirty' = r_dirty \cup {f}
         /\ r_values' = [r_values EXCEPT ![f] = from_python(f, v)]
         /\ last' = Op("set", f, v, "none")
         /\ assigned' = TRUE

SetField(f, v) ==
    /\ setter_for_field(f, v)
    /\ sent' = <<>>
    /\ answered' = <<>>
    /\ UNCHANGED <<kind, srv, s_vars, c_vars>>

\* resource.x = v for a name x that is no field of the kind: Resource
\* defines neither __slots__ nor __setattr__, so the assignment makes an
\* attribute of the instance and raises nothing.
SetUndeclared(v) ==
    /\ last' = Op("set_undeclared", "-", v, "none")
    /\ UNCHANGED <<r_values, r_dirty, assigned>>
    /\ sent' = <<>>
    /\ answered' = <<>>
    /\ UNCHANGED <<kind, srv, s_vars, c_vars>>

\* The requests a getter makes: Link.to_python gets every linked resource
\* through the session.
getter_requests(f) ==
    IF FieldType(f) = "Set" /\ SetMember(f) = "Link" /\ r_values[f].t # "none"
    THEN [i \in DOMAIN r_values[f].e |-> Get("GET", r_values[f].e[i])]
    ELSE IF FieldType(f) = "Link" /\ r_values[f].t # "none"
    THEN <<Get("GET", r_values[f].e[1])>>
    ELSE <<>>

RECURSIVE Concat(_, _)
Concat(fs, S) ==
    IF S = {} THEN <<>>
    ELSE LET f == CHOOSE g \in S : TRUE
         IN fs[f] \o Concat(fs, S \ {f})

\* The data of the PATCH of save(): {field.key: getattr(self, field.name)}
\* over the dirty fields.
save_data ==
    [k \in {Key(f) : f \in r_dirty} |->
        getter(CHOOSE f \in r_dirty : Key(f) = k)]

\* The server applies a PATCH to the representation it holds.
Patched(rep, data) ==
    [k \in DOMAIN rep |-> IF k \in DOMAIN data THEN data[k] ELSE rep[k]]

\* A save() without the `if self.dirty` guard.
save_unguarded(x) ==
    LET out == request(save_data, x)
    IN /\ sent' = IF out.sent THEN <<Patch(getter("uri").e[1], save_data)>>
                  ELSE <<>>
       /\ last' = Op("save", "-", None, out.exc)
       /\ IF out.returned
          THEN /\ r_dirty' = {}
               /\ srv' = Patched(srv, save_data)
               /\ assigned' = FALSE
          ELSE UNCHANGED <<r_dirty, srv, assigned>>
       /\ UNCHANGED r_values

\* A save() that loads the representation in the response of the PATCH.
save_reloads(x) ==
    IF dirty
    THEN LET out == request(save_data, x)
             gets == Concat([f \in r_dirty |-> getter_requests(f)], r_dirty)
         IN /\ sent' = IF out.sent
                       THEN gets \o <<Patch(getter("uri").e[1], save_data)>>
                       ELSE gets
            /\ last' = Op("save", "-", None, out.exc)
            /\ IF out.returned
               THEN /\ r_dirty' = {}
                    /\ srv' = Patched(srv, save_data)
                    /\ r_values' = load_values(kind, Patched(srv, save_data))
                    /\ assigned' = FALSE
               ELSE UNCHANGED <<r_dirty, srv, r_values, assigned>>
    ELSE /\ sent' = <<>>
         /\ last' = Op("save", "-", None, "none")
         /\ UNCHANGED <<r_values, r_dirty, srv, assigned>>

\* A save() that clears the dirty set before the PATCH is answered.
save_clears_first(x) ==
    IF dirty
    THEN LET out == request(save_data, x)
             gets == Concat([f \in r_dirty |-> getter_requests(f)], r_dirty)
         IN /\ sent' = IF out.sent
                       THEN gets \o <<Patch(getter("uri").e[1], save_data)>>
                       ELSE gets
            /\ last' = Op("save", "-", None, out.exc)
            /\ r_dirty' = {}
            /\ IF out.returned
               THEN /\ srv' = Patched(srv, save_data)
                    /\ assigned' = FALSE
               ELSE UNCHANGED <<srv, assigned>>
            /\ UNCHANGED r_values
    ELSE /\ sent' = <<>>
         /\ last' = Op("save", "-", None, "none")
         /\ UNCHANGED <<r_values, r_dirty, srv, assigned>>

\* Resource.save
save(x) ==
    IF dirty
    THEN LET out == request(save_data, x)
             gets == Concat([f \in r_dirty |-> getter_requests(f)], r_dirty)
         IN /\ sent' = IF out.sent
                       THEN gets \o <<Patch(getter("uri").e[1], save_data)>>
                       ELSE gets
            /\ last' = Op("save", "-", None, out.exc)
            /\ IF out.returned
               THEN /\ r_dirty' = {}
                    /\ srv' = Patched(srv, save_data)
                    /\ assigned' = FALSE
               ELSE UNCHANGED <<r_dirty, srv, assigned>>
            /\ UNCHANGED r_values
    ELSE /\ sent' = <<>>
         /\ last' = Op("save", "-", None, "none")
         /\ UNCHANGED <<r_values, r_dirty, srv, assigned>>

Save(x) ==
    /\ save(x)
    /\ answered' = IF \E i \in DOMAIN sent' : sent'[i].method = "PATCH"
                   THEN <<x>> ELSE <<>>
    /\ UNCHANGED <<kind, s_vars, c_vars>>

\* A refresh() that loads the values and leaves the dirty set as it is.
refresh_keeps_dirty(x) ==
    LET out == request(NoData, x)
    IN /\ sent' = <<Get("GET", getter("uri").e[1])>>
       /\ last' = Op("refresh", "-", None, out.exc)
       /\ IF out.returned
          THEN /\ r_values' = load_values(kind, srv)
               /\ assigned' = FALSE
          ELSE UNCHANGED <<r_values, assigned>>
       /\ UNCHANGED r_dirty

\* A refresh() that passes over the dirty fields.
refresh_skips_dirty(x) ==
    LET out == request(NoData, x)
    IN /\ sent' = <<Get("GET", getter("uri").e[1])>>
       /\ last' = Op("refresh", "-", None, out.exc)
       /\ IF out.returned
          THEN r_values' = [f \in FieldsOf(kind) |->
                               IF f \in r_dirty THEN r_values[f]
                               ELSE load_values(kind, srv)[f]]
          ELSE UNCHANGED r_values
       /\ UNCHANGED <<r_dirty, assigned>>

\* Resource.refresh
refresh(x) ==
    LET out == request(NoData, x)
    IN /\ sent' = <<Get("GET", getter("uri").e[1])>>
       /\ last' = Op("refresh", "-", None, out.exc)
       /\ IF out.returned
          THEN /\ r_values' = load_values(kind, srv)
               /\ r_dirty' = {}
               /\ assigned' = FALSE
          ELSE UNCHANGED <<r_values, r_dirty, assigned>>

Refresh(x) ==
    /\ refresh(x)
    /\ answered' = <<x>>
    /\ UNCHANGED <<kind, srv, s_vars, c_vars>>

\* Resource.refresh called as refresh(skip_dirty=True): `def refresh(self)`
\* takes no such argument, so the call raises TypeError before the body of
\* the method runs.
refresh_skip_dirty ==
    /\ sent' = <<>>
    /\ last' = Op("refresh_skip_dirty", "-", None, "TypeError")
    /\ UNCHANGED <<r_values, r_dirty, assigned>>

RefreshSkipDirty ==
    /\ refresh_skip_dirty
    /\ answered' = <<>>
    /\ UNCHANGED <<kind, srv, s_vars, c_vars>>

\* Session.endpoints[cls.key + '_collection'], the URI of the collection.
CollectionUri == 0

\* The filters of a SampleCollection.
Filters == {"groups", "public", "user"}

\* No filter was given to the constructor.
NoFilters == [f \in Filters |-> None]

\* session.config.api_root, the URI of the root document.
RootUri == 9

\* A session that gets the root document at every lookup.
uris_uncached(z) ==
    LET out == request(NoData, z)
    IN [exc |-> out.exc, sent |-> <<Get("GET", RootUri)>>,
        answered |-> <<z>>, cached |-> out.returned]

\* Session.uris, the lookup of the endpoints: when _cached_uris is not set,
\* get the root document and keep the map of its URIs; an error of the
\* request leaves _cached_uris as it was.  z is the server's answer to the
\* root request, if one is made.
uris(z) ==
    IF cached_uris
    THEN [exc |-> "none", sent |-> <<>>, answered |-> <<>>, cached |-> TRUE]
    ELSE LET out == request(NoData, z)
         IN [exc |-> out.exc, sent |-> <<Get("GET", RootUri)>>,
             answered |-> <<z>>, cached |-> out.returned]

\* The Set field of the kind.
SetFieldOf(k) == IF k = "sample" THEN "groups" ELSE "roles"

\* The arguments a caller passes to Sample.create or User.create: a name
\* (and a login), and for the Set field of the kind a list of members or
\* nothing (None).
CreateArgs(k) ==
    {[name |-> Scalar(1), members |-> m] :
        m \in {None, List(IF k = "sample" THEN "resource" ELSE "scalar", <<1>>)}}

\* Sample.create / User.create: the values they hand to Resource.create,
\* with `groups = groups or []` and `roles = roles or []`.
kind_create_values(k, args) ==
    LET members == IF args.members.t = "none" \/ args.members.e = <<>>
                   THEN List(IF k = "sample" THEN "resource" ELSE "scalar", <<>>)
                   ELSE args.members
    IN IF k = "sample"
       THEN [name |-> args.name, groups |-> members]
       ELSE [login |-> Scalar(1), name |-> args.name, roles |-> members]

\* The data of the POST of create(): {field.key: field.from_python(value)}
\* over the fields that were passed.
create_data(k, values) ==
    [key \in {Key(f) : f \in FieldsOf(k) \cap DOMAIN values} |->
        LET f == CHOOSE g \in FieldsOf(k) \cap DOMAIN values : Key(g) = key
        IN from_python(f, values[f])]

\* The representation the server gives the resource it creates from the
\* data of a POST; links are objects in a representation.
Created(k, data) ==
    IF k = "sample"
    THEN [uri |-> Scalar(OwnUri), user |-> UriObject(1), name |-> data["name"],
          groups |-> List("dict", data["groups"].e), added |-> Scalar(1)]
    ELSE [uri |-> Scalar(OwnUri), login |-> Scalar(1), name |-> data["name"],
          roles |-> data["roles"], added |-> Scalar(1)]

\* Sample.create / User.create and the Resource.create they end in: look
\* up the collection of the kind in the endpoints, POST the data to it,
\* then get the resource at the Location of the response.  The created
\* resource takes the place of the one the model follows.  The record of
\* the operation keeps the members argument of the caller.  z, x and y are
\* the server's answers to the root request, the POST and the GET.
create(args, z, x, y) ==
    LET values == kind_create_values(kind, args)
        data == create_data(kind, values)
        root == uris(z)
        posted == request(data, x)
        got == request(NoData, y)
        post == [method |-> "POST", uri |-> CollectionUri, data |-> data]
    IN /\ cached_uris' = root.cached
       /\ IF root.exc # "none"
          THEN /\ sent' = root.sent
               /\ answered' = root.answered
               /\ last' = Op("create", "-", args.members, root.exc)
               /\ UNCHANGED <<r_values, r_dirty, srv, assigned>>
          ELSE IF ~posted.returned
          THEN /\ sent' = root.sent \o (IF posted.sent THEN <<post>> ELSE <<>>)
               /\ answered' =
                      root.answered \o (IF posted.sent THEN <<x>> ELSE <<>>)
               /\ last' = Op("create", "-", args.members, posted.exc)
               /\ UNCHANGED <<r_values, r_dirty, srv, assigned>>
          ELSE /\ sent' = root.sent \o <<post, Get("GET", OwnUri)>>
               /\ answered' = root.answered \o <<x, y>>
               /\ last' = Op("create", "-", args.members, got.exc)
               /\ IF got.returned
                  THEN /\ srv' = Created(kind, data)
                       /\ r_values' = load_values(kind, Created(kind, data))
                       /\ r_dirty' = {}
                       /\ assigned' = FALSE
                  ELSE UNCHANGED <<r_values, r_dirty, srv, assigned>>

Create(args, z, x, y) ==
    /\ create(args, z, x, y)
    /\ UNCHANGED <<kind, rq, cmp, page_mode, trip, c_vars>>

\* r.save_fields(f=v): Resource and its subclasses define no save_fields
\* (and no __getattr__), so the attribute lookup raises AttributeError
\* before anything is called.
save_fields(f, v) ==
    /\ sent' = <<>>
    /\ last' = Op("save_fields", f, v, "AttributeError")
    /\ UNCHANGED <<r_values, r_dirty, srv, assigned>>

SaveFields(f, v) ==
    /\ save_fields(f, v)
    /\ answered' = <<>>
    /\ UNCHANGED <<kind, s_vars, c_vars>>

\* r.f.add(a) on a Set field: the getter runs (and gets every linked
\* member through the session), then add is looked up on its value.  A
\* frozenset and None have no add (AttributeError); a set would take the
\* member without touching the stored list.
set_add(f, a) ==
    LET v == getter(f)
    IN /\ sent' = getter_requests(f)
       /\ last' = Op("add", f, Scalar(a),
                     IF v.t = "set" THEN "none" ELSE "AttributeError")
       /\ UNCHANGED <<r_values, r_dirty, srv, assigned>>

SetAdd(f, a) ==
    /\ FieldType(f) = "Set"
    /\ set_add(f, a)
    /\ answered' = <<>>
    /\ UNCHANGED <<kind, s_vars, c_vars>>

\* The states of a task, numbered, and the task object of a representation.
TaskStates == {"waiting", "running", "success", "failure"}
TaskIndex(st) ==
    CASE st = "waiting" -> 1 [] st = "running" -> 2 [] st = "success" -> 3
      [] st = "failure" -> 4 [] OTHER -> 0
TaskObject(st) == [t |-> "dict", m |-> "task", e |-> <<TaskIndex(st)>>]

\* What a caller reads on annotation.task.
TaskAttributes == TaskStates \cup {"error"}

\* The representations the server holds for an annotation.
AnnotationRepresentations ==
    {[uri |-> Scalar(OwnUri), original_data_source |-> UriObject(1),
      annotated_data_source |-> a, task |-> TaskObject(st)] :
         a \in {None, UriObject(2)}, st \in TaskStates}

\* annotation.task.<attribute>: the getter of the Task field gives the
\* stored API value, a dict (Field.to_python), and a dict has no such
\* attribute.  The record of the read keeps the attribute and, had the
\* read returned, its value.
read_task_attribute(a) ==
    LET v == getter("task")
        read(result) == [t |-> "attribute", m |-> a, e |-> result]
    IN /\ sent' = <<>>
       /\ last' = IF v.t = "task"
                  THEN Op("task_attribute", "task",
                          read(IF a = "error" THEN <<>>
                               ELSE IF v.e[1] = TaskIndex(a) THEN <<1>>
                               ELSE <<0>>), "none")
                  ELSE Op("task_attribute", "task", read(<<>>),
                          "AttributeError")
       /\ UNCHANGED <<r_values, r_dirty, srv, assigned>>

ReadTaskAttribute(a) ==
    /\ read_task_attribute(a)
    /\ answered' = <<>>
    /\ UNCHANGED <<kind, s_vars, c_vars>>

\* annotation.task.wait_and_monitor() and annotation.task.resubmit(): the
\* dict has neither method, the lookup raises AttributeError and nothing
\* is sent.
call_task_method(method) ==
    LET v == getter("task")
    IN /\ sent' = <<>>
       /\ last' = Op(method, "task", None,
                     IF v.t = "task" THEN "none" ELSE "AttributeError")
       /\ UNCHANGED <<r_values, r_dirty, srv, assigned>>

CallTaskMethod(method) ==
    /\ call_task_method(method)
    /\ answered' = <<>>
    /\ UNCHANGED <<kind, s_vars, c_vars>>

\* The server moves the task of the annotation to another state.
ServerTask(st) ==
    /\ srv["task"] # TaskObject(st)
    /\ srv' = [srv EXCEPT !["task"] = TaskObject(st)]
    /\ last' = Op("server", "task", TaskObject(st), "none")
    /\ sent' = <<>>
    /\ answered' = <<>>
    /\ UNCHANGED <<kind, r_values, r_dirty, assigned, s_vars, c_vars>>

\* Another client changes the name the server holds.
ServerChange(a) ==
    /\ srv["name"] # Scalar(a)
    /\ srv' = [srv EXCEPT !["name"] = Scalar(a)]
    /\ last' = Op("server", "name", Scalar(a), "none")
    /\ sent' = <<>>
    /\ answered' = <<>>
    /\ UNCHANGED <<kind, r_values, r_dirty, assigned, s_vars, c_vars>>

\* Another client changes the members of the Set field the server holds.
ServerChangeSet(q) ==
    LET f == SetFieldOf(kind)
        v == List(srv[Key(f)].m, q)
    IN /\ srv[Key(f)] # v
       /\ srv' = [srv EXCEPT ![Key(f)] = v]
       /\ last' = Op("server", f, v, "none")
       /\ sent' = <<>>
       /\ answered' = <<>>
       /\ UNCHANGED <<kind, r_values, r_dirty, assigned, s_vars, c_vars>>

----------------------------------------------------------------------------
(* Comparison of two Resource objects (resources.py).                       *)

\* The URIs a Resource can hold: none (never persisted), the empty string,
\* or a URI.
UriValues == {None, EmptyString} \cup {Scalar(u) : u \in Atoms}

\* A User object as Resource.__init__ makes it from a dictionary of
\* values; id tells the objects apart.
UserObject(id, uri, login, name) ==
    [id |-> id,
     values |-> load_values("user", [uri |-> uri, login |-> Scalar(login),
                                     name |-> Scalar(name)])]

\* The pairs (a, b) that are compared: two objects, or one object twice.
Pairs ==
    LET A == {UserObject(1, u, l, n) : u \in UriValues, l \in Atoms, n \in Atoms}
        B == {UserObject(2, u, l, n) : u \in UriValues, l \in Atoms, n \in Atoms}
    IN {<<a, b>> : a \in A, b \in B} \cup {<<a, a>> : a \in A}

\* Resource.__eq__(a, b): `self.uri and other.uri and self.uri == other.uri`
\* gives the first operand that is false, else the last one.
eq(a, b) ==
    IF ~Truthy(a.values["uri"]) THEN a.values["uri"]
    ELSE IF ~Truthy(b.values["uri"]) THEN b.values["uri"]
    ELSE Bool(a.values["uri"] = b.values["uri"])

\* a != b: Resource defines __eq__ and __hash__ but neither __ne__ nor
\* __cmp__, and Python 2 does not derive != from __eq__: the comparison
\* falls back to the identity of the two objects.
ne(a, b) == Bool(a.id # b.id)

NoComparison ==
    [called |-> FALSE, a |-> UserObject(1, None, 1, 1),
     b |-> UserObject(1, None, 1, 1), eq |-> None, ne |-> Bool(FALSE)]

\* Evaluate a == b and a != b.
Compare(a, b) ==
    /\ cmp' = [called |-> TRUE, a |-> a, b |-> b, eq |-> eq(a, b),
               ne |-> ne(a, b)]
    /\ UNCHANGED <<r_vars, c_vars, rq, cached_uris, page_mode, trip>>

----------------------------------------------------------------------------
(* Initial states and the specifications of Resource and Session.request.   *)

NoCall ==
    [called |-> FALSE, ok |-> TRUE,
     resp |-> [status |-> 200, body |-> "json", code |-> 1, message |-> 1,
               len |-> 0],
     out |-> Returned([status |-> 200, body |-> "json", code |-> 1,
                       message |-> 1, len |-> 0]),
     via |-> "-", data |-> FALSE, files |-> "absent",
     wire |-> [body |-> "empty", content_type |-> "-"]]

NoneNext == -1

NoCollection ==
    /\ items = {}
    /\ c_live = FALSE
    /\ c_next = NoneNext
    /\ c_resources = <<>>
    /\ c_size = 0
    /\ c_out = [op |-> "-", exc |-> "none", item |-> 0, status |-> 0]
    /\ yielded = <<>>
    /\ changed = 0
    /\ c_fresh = TRUE
    /\ c_values = NoFilters
    /\ c_args = NoFilters
    /\ c_sent = <<>>
    /\ requested = <<>>
    /\ stayed = {}

\* The resource right after Session.sample(uri) or Session.user(uri)
\* returned it.
Init ==
    /\ kind \in Kinds
    /\ srv \in Representations(kind)
    /\ r_values = load_values(kind, srv)
    /\ r_dirty = {}
    /\ sent = <<Get("GET", OwnUri)>>
    /\ last = [op |-> "get", field |-> "-", value |-> None, exc |-> "none",
               pre |-> {}, same |-> FALSE, stale |-> {}]
    /\ assigned = FALSE
    /\ answered = <<Answer(TRUE, 200)>>
    /\ rq = NoCall
    /\ cached_uris = TRUE
    /\ cmp = NoComparison
    /\ page_mode = "range"
    /\ trip = NoTrip
    /\ NoCollection

Next ==
    \/ \E x \in Answers : GetByUri(x)
    \/ \E f \in FieldsOf(kind) : \E v \in PyInputs(f) : SetField(f, v)
    \/ \E x \in Answers : Save(x)
    \/ \E x \in Answers : Refresh(x)
    \/ \E args \in CreateArgs(kind) : \E x, y \in Answers :
           /\ request(NoData, x).returned \/ y = x
           /\ Create(args, Answer(TRUE, 200), x, y)
    \/ \E a \in Atoms : SaveFields("name", Scalar(a))
    \/ SetAdd(SetFieldOf(kind), 2)
    \/ \E a \in Atoms : ServerChange(a)
    \/ \E q \in {<<>>, <<1>>} : ServerChangeSet(q)
    \/ RefreshSkipDirty

Spec == Init /\ [][Next]_vars

\* The values assigned to a field in SpecAssign: for a Set of links also a
\* list of strings, which have no uri.
AssignInputs(f) ==
    CASE FieldType(f) = "Set" ->
             LET m == IF SetMember(f) = "Link" THEN "resource" ELSE "scalar"
             IN {None, List(m, <<1>>), PySet(m, {1, 2}), List("scalar", <<2>>)}
      [] OTHER -> {None, Scalar(2)}

\* A resource of any kind, the annotation with its hidden fields included,
\* under every assignment and every operation that loads or saves it.
InitAssign ==
    /\ kind \in Kinds \cup {"annotation"}
    /\ srv \in IF kind = "annotation" THEN AnnotationRepresentations
               ELSE Representations(kind)
    /\ r_values = load_values(kind, srv)
    /\ r_dirty = {}
    /\ sent = <<Get("GET", OwnUri)>>
    /\ last = [op |-> "get", field |-> "-", value |-> None, exc |-> "none",
               pre |-> {}, same |-> FALSE, stale |-> {}]
    /\ assigned = FALSE
    /\ answered = <<Answer(TRUE, 200)>>
    /\ rq = NoCall
    /\ cached_uris = TRUE
    /\ cmp = NoComparison
    /\ page_mode = "range"
    /\ trip = NoTrip
    /\ NoCollection

NextAssign ==
    \/ \E x \in {Answer(TRUE, 200), Answer(FALSE, 200)} : GetByUri(x)
    \/ \E f \in FieldsOf(kind) : \E v \in AssignInputs(f) : SetField(f, v)
    \/ SetUndeclared(Scalar(2))
    \/ \E x \in {Answer(TRUE, 200), Answer(FALSE, 200)} : Save(x)
    \/ \E x \in {Answer(TRUE, 200), Answer(FALSE, 200)} : Refresh(x)
    \/ \E args \in CreateArgs(kind) :
           /\ kind # "annotation"
           /\ Create(args, Answer(TRUE, 200), Answer(TRUE, 200),
                     Answer(TRUE, 200))

SpecAssign == InitAssign /\ [][NextAssign]_vars

\* The Python values of the field f, what its to_python gives: datetimes
\* without tzinfo, in UTC and one hour east; sets and frozensets; dicts of
\* queries over two names.
LocalValues(f) ==
    CASE FieldType(f) = "DateTime" ->
             {None} \cup {DateTime(a, us, tz) :
                             a \in Atoms, us \in {0, 1},
                             tz \in {"-", "UTC", "FixedOffset1"}}
      [] FieldType(f) = "Set" ->
             {None} \cup Sets("scalar")
                 \cup {FrozenSet("scalar", S) : S \in SUBSET Members}
      [] FieldType(f) = "Queries" ->
             LET Queries == {n * 10 + x : n \in Members, x \in Atoms}
             IN {None} \cup
                    {QueryDict(S) :
                        S \in {T \in SUBSET Queries :
                                  \A p, q \in T :
                                      QueryName(p) = QueryName(q) => p = q}}
      [] OTHER -> {None} \cup {Scalar(a) : a \in Atoms}

\* The value x as its container may iterate: a set, a frozenset and a dict
\* give their members in an order of their own.
IterationOrders(x) ==
    LET S == Range(x.e)
        Orders == {q \in [1..Cardinality(S) -> S] :
                      \A i, j \in 1..Cardinality(S) : q[i] = q[j] => i = j}
    IN IF x.t \in {"set", "frozenset", "querydict"}
       THEN {[x EXCEPT !.e = q] : q \in Orders}
       ELSE {x}

\* field.from_python(x), where the container x iterates as y.
ToWire(f, x, y) ==
    /\ trip' = [stage |-> "wire", field |-> f, x |-> x,
                wire |-> from_python(f, y), back |-> None]
    /\ UNCHANGED <<r_vars, c_vars, rq, cached_uris, cmp, page_mode>>

\* field.to_python on the API value the last from_python gave.
ToLocal ==
    /\ trip.stage = "wire"
    /\ trip' = [trip EXCEPT !.stage = "local",
                            !.back = to_python(trip.field, trip.wire)]
    /\ UNCHANGED <<r_vars, c_vars, rq, cached_uris, cmp, page_mode>>

\* The conversions of the fields of a resource of any kind whose conversion
\* goes both ways: not Link, Task or a Set of Links.
NextRoundTrip ==
    \/ \E f \in {g \in FieldsOf(kind) :
                    \/ FieldType(g) \in {"String", "DateTime", "Queries"}
                    \/ FieldType(g) = "Set" /\ SetMember(g) # "Link"} :
           \E x \in LocalValues(f) :
               \E y \in IterationOrders(x) : ToWire(f, x, y)
    \/ ToLocal

SpecRoundTrip == InitAssign /\ [][NextRoundTrip]_vars

\* Session.request on every exchange.
InitRequest ==
    /\ Init
    /\ kind = "sample"
    /\ srv = [uri |-> Scalar(OwnUri), user |-> UriObject(1), name |-> Scalar(1),
              groups |-> List("dict", <<>>), added |-> Scalar(1)]

NextRequest == \E x \in Exchanges : Request(x)

SpecRequest == InitRequest /\ [][NextRequest]_vars

\* The requests that carry data, with and without files, on exchanges that
\* succeed, fail in the transport or are answered with an error.
DataExchanges ==
    {Answer(ok, st) : ok \in BOOLEAN,
                      st \in {200, 201, 202, 400, 403, 404, 500}}

NextEncoding ==
    \/ \E d \in BOOLEAN : \E f \in {"absent", "none", "payload"} :
       \E x \in DataExchanges : RequestWith(d, f, x)
    \/ \E stream, local_file \in BOOLEAN : \E x \in DataExchanges :
           AddDataSource(stream, local_file, x)
    \/ \E stream, local_file \in BOOLEAN : \E x \in DataExchanges :
           DataSourceCreate(stream, local_file, x)

SpecEncoding == InitRequest /\ [][NextEncoding]_vars

\* An annotation right after Session.annotation(uri) returned it.
InitTask ==
    /\ kind = "annotation"
    /\ srv \in AnnotationRepresentations
    /\ r_values = load_values(kind, srv)
    /\ r_dirty = {}
    /\ sent = <<Get("GET", OwnUri)>>
    /\ last = [op |-> "get", field |-> "-", value |-> None, exc |-> "none",
               pre |-> {}, same |-> FALSE, stale |-> {}]
    /\ assigned = FALSE
    /\ answered = <<Answer(TRUE, 200)>>
    /\ rq = NoCall
    /\ cached_uris = TRUE
    /\ cmp = NoComparison
    /\ page_mode = "range"
    /\ trip = NoTrip
    /\ NoCollection

NextTask ==
    \/ \E x \in Answers : GetByUri(x)
    \/ \E x \in Answers : Refresh(x)
    \/ \E a \in TaskAttributes : ReadTaskAttribute(a)
    \/ \E method \in {"wait_and_monitor", "resubmit"} : CallTaskMethod(method)
    \/ \E st \in TaskStates : ServerTask(st)

SpecTask == InitTask /\ [][NextTask]_vars

\* == and != on every pair of objects.
NextEquality == \E p \in Pairs : Compare(p[1], p[2])

SpecEquality == InitRequest /\ [][NextEquality]_vars

----------------------------------------------------------------------------
(* ResourceCollection (resources.py) over the server's collection.          *)

\* The server's collection in server order.
Listing == SortedSeq(items)

\* werkzeug.datastructures.Range('items', [(begin, end)]).to_header(): the
\* end of a Range is exclusive, the header "items=first-last" is inclusive.
RangeHeader(begin, end) == [first |-> begin, last |-> end - 1]

\* The statuses a server gives a page it can serve: 206 Partial Content,
\* or 200.
PageStatuses == {200, 206}

\* The ways a page request can fare, and the most items a server that
\* limits its pages returns for one request.
ServerPageSize == 1

\* The statuses of the error answers a page request can get as any other
\* request can: the collection is not found, the server fails.
PageErrors == {404, 500}

\* The server's answer to a range request: an error answer; else 416 when
\* the window starts beyond the last item (so for every window on an empty
\* collection), else the items of the window that exist with the header
\* "Content-Range: items first-last/total".
\* page_mode says how the request fares: "range" as above; "short": the
\* server returns at most ServerPageSize items of the window and reports
\* them in Content-Range; "norange": the server returns the items of the
\* window in a success response that has no Content-Range header; "down":
\* the transport fails and no response arrives.
ServerPage(range_, status) ==
    IF page_mode = "down"
    THEN [x |-> Answer(FALSE, status), page |-> <<>>, header |-> FALSE,
          content_range |-> [first |-> 0, last |-> 0, total |-> Len(Listing)]]
    ELSE IF status \in PageErrors
    THEN [x |-> Answer(TRUE, status), page |-> <<>>, header |-> FALSE,
          content_range |-> [first |-> 0, last |-> 0, total |-> Len(Listing)]]
    ELSE IF range_.first >= Len(Listing)
    THEN [x |-> Answer(TRUE, 416), page |-> <<>>, header |-> FALSE,
          content_range |-> [first |-> 0, last |-> 0, total |-> Len(Listing)]]
    ELSE LET end_ == IF page_mode = "short"
                     THEN Min(range_.last, range_.first + ServerPageSize - 1)
                     ELSE range_.last
             last_ == Min(end_, Len(Listing) - 1)
         IN [x |-> [ok |-> TRUE,
                    resp |-> [status |-> status, body |-> "json", code |-> 1,
                              message |-> 1, len |-> 0]],
             page |-> SubSeq(Listing, range_.first + 1, last_ + 1),
             header |-> page_mode # "norange",
             content_range |-> [first |-> range_.first, last |-> last_,
                                total |-> Len(Listing)]]

\* werkzeug.http.parse_content_range_header: the stop of a ContentRange is
\* exclusive.
parse_content_range_header(h) ==
    [start |-> h.first, stop |-> h.last + 1, length |-> h.total]

\* A page request that carries every filter, None or not.
page_data_all(values) == values

\* The data of a page request: the filters whose value is not None.
page_data(values) ==
    [f \in {g \in DOMAIN values : values[g] # None} |-> values[f]]

\* A request as the transport sees it, with its Range header.
NoRange == [first |-> 0, last |-> 0]
PageRequest(data, range_) ==
    [method |-> "GET", uri |-> CollectionUri, data |-> data, range |-> range_]
RootRequest ==
    [method |-> "GET", uri |-> RootUri, data |-> NoData, range |-> NoRange]

\* A _get_resources that starts over at the first window when the cursor
\* is None.
get_resources_restarts(nxt_, buf, size, values, z, status) ==
    LET nxt == IF nxt_ = NoneNext THEN 0 ELSE nxt_ IN
    IF nxt = NoneNext
    THEN [next |-> nxt, resources |-> buf, size |-> size, exc |-> "none",
          status |-> 0, sent |-> <<>>, requested |-> <<>>,
          cached |-> cached_uris]
    ELSE LET range_ == RangeHeader(nxt, nxt + cache_size)
             root == uris(z)
             roots == IF root.sent = <<>> THEN <<>> ELSE <<RootRequest>>
             data == page_data(values)
             answer == ServerPage(range_, status)
             out == request(data, answer.x)
             sent_ == roots \o (IF out.sent THEN <<PageRequest(data, range_)>>
                                ELSE <<>>)
             content_range == parse_content_range_header(answer.content_range)
         IN IF root.exc # "none"
            THEN [next |-> nxt, resources |-> buf, size |-> size,
                  exc |-> root.exc, status |-> 0, sent |-> roots,
                  requested |-> <<>>, cached |-> root.cached]
            ELSE IF out.exc = "UnsatisfiableRangeError"
            THEN [next |-> NoneNext, resources |-> buf, size |-> 0,
                  exc |-> "none", status |-> answer.x.resp.status,
                  sent |-> sent_,
                  requested |-> <<[first |-> nxt, served |-> FALSE]>>,
                  cached |-> root.cached]
            ELSE IF ~out.returned
            THEN [next |-> nxt, resources |-> buf, size |-> size,
                  exc |-> out.exc, status |-> answer.x.resp.status,
                  sent |-> sent_,
                  requested |-> IF out.sent
                                THEN <<[first |-> nxt, served |-> FALSE]>>
                                ELSE <<>>,
                  cached |-> root.cached]
            ELSE IF ~answer.header
            THEN [next |-> nxt, resources |-> buf \o answer.page,
                  size |-> size, exc |-> "KeyError",
                  status |-> answer.x.resp.status, sent |-> sent_,
                  requested |-> <<[first |-> nxt, served |-> TRUE]>>,
                  cached |-> root.cached]
            ELSE [next |-> IF content_range.stop < content_range.length
                           THEN nxt + cache_size ELSE NoneNext,
                  resources |-> buf \o answer.page,
                  size |-> content_range.length,
                  exc |-> "none", status |-> answer.x.resp.status,
                  sent |-> sent_,
                  requested |-> <<[first |-> nxt, served |-> TRUE]>>,
                  cached |-> root.cached]

\* ResourceCollection._get_resources on the cursor nxt, the buffer buf, the
\* size and the filter values: what cursor, buffer and size become, the
\* exception that leaves the method, the status of the response to the page
\* request (0 when none is made), the requests that were sent, the page
\* request as an entry of the history, and whether the endpoints are
\* cached afterwards.  z is the server's answer to a root request.  The
\* buffer is extended before the Content-Range header is looked up, so a
\* response without the header raises KeyError with its items buffered.
get_resources(nxt, buf, size, values, z, status) ==
    IF nxt = NoneNext
    THEN [next |-> nxt, resources |-> buf, size |-> size, exc |-> "none",
          status |-> 0, sent |-> <<>>, requested |-> <<>>,
          cached |-> cached_uris]
    ELSE LET range_ == RangeHeader(nxt, nxt + cache_size)
             root == uris(z)
             roots == IF root.sent = <<>> THEN <<>> ELSE <<RootRequest>>
             data == page_data(values)
             answer == ServerPage(range_, status)
             out == request(data, answer.x)
             sent_ == roots \o (IF out.sent THEN <<PageRequest(data, range_)>>
                                ELSE <<>>)
             content_range == parse_content_range_header(answer.content_range)
         IN IF root.exc # "none"
            THEN [next |-> nxt, resources |-> buf, size |-> size,
                  exc |-> root.exc, status |-> 0, sent |-> roots,
                  requested |-> <<>>, cached |-> root.cached]
            ELSE IF out.exc = "UnsatisfiableRangeError"
            THEN [next |-> NoneNext, resources |-> buf, size |-> 0,
                  exc |-> "none", status |-> answer.x.resp.status,
                  sent |-> sent_,
                  requested |-> <<[first |-> nxt, served |-> FALSE]>>,
                  cached |-> root.cached]
            ELSE IF ~out.returned
            THEN [next |-> nxt, resources |-> buf, size |-> size,
                  exc |-> out.exc, status |-> answer.x.resp.status,
                  sent |-> sent_,
                  requested |-> IF out.sent
                                THEN <<[first |-> nxt, served |-> FALSE]>>
                                ELSE <<>>,
                  cached |-> root.cached]
            ELSE IF ~answer.header
            THEN [next |-> nxt, resources |-> buf \o answer.page,
                  size |-> size, exc |-> "KeyError",
                  status |-> answer.x.resp.status, sent |-> sent_,
                  requested |-> <<[first |-> nxt, served |-> TRUE]>>,
                  cached |-> root.cached]
            ELSE [next |-> IF content_range.stop < content_range.length
                           THEN nxt + cache_size ELSE NoneNext,
                  resources |-> buf \o answer.page,
                  size |-> content_range.length,
                  exc |-> "none", status |-> answer.x.resp.status,
                  sent |-> sent_,
                  requested |-> <<[first |-> nxt, served |-> TRUE]>>,
                  cached |-> root.cached]

COut(op, exc, item, status) ==
    [op |-> op, exc |-> exc, item |-> item, status |-> status]

\* The arguments a caller gives to SampleCollection: for each filter a
\* Python value or None.
FilterArgs ==
    [groups : {None, List("resource", <<>>), List("resource", <<1>>),
               PySet("resource", {1})},
     public : {None, Bool(TRUE), Bool(FALSE)},
     user : {None, ResourceObject(1)}]

NoFilterArgs == NoFilters

\* SampleCollection.__init__ and ResourceCollection.__init__: the API
\* value of every filter (the constructor of SampleCollection passes all of
\* them), size = 0, an empty buffer, then reset().  When reset() raises, no
\* collection object comes to exist.
Construct(args, z, status) ==
    LET values == [f \in Filters |-> from_python(f, args[f])]
        got == get_resources(0, <<>>, 0, values, z, status)
    IN /\ c_live' = (got.exc = "none")
       /\ c_values' = values
       /\ c_args' = args
       /\ c_next' = got.next
       /\ c_resources' = got.resources
       /\ c_size' = got.size
       /\ c_out' = COut("construct", got.exc, 0, got.status)
       /\ c_sent' = got.sent
       /\ requested' = got.requested
       /\ cached_uris' = got.cached
       /\ yielded' = <<>>
       /\ changed' = 0
       /\ c_fresh' = TRUE
       /\ stayed' = items
       /\ UNCHANGED <<items, r_vars, rq, cmp, page_mode, trip>>

\* ResourceCollection.reset
reset(z, status) ==
    LET got == get_resources(0, <<>>, c_size, c_values, z, status)
    IN /\ c_next' = got.next
       /\ c_resources' = got.resources
       /\ c_size' = got.size
       /\ c_out' = COut("reset", got.exc, 0, got.status)
       /\ c_sent' = got.sent
       /\ requested' = got.requested
       /\ cached_uris' = got.cached

Reset(z, status) ==
    /\ c_live
    /\ reset(z, status)
    /\ yielded' = <<>>
    /\ changed' = 0
    /\ c_fresh' = FALSE
    /\ stayed' = items
    /\ UNCHANGED <<items, c_live, c_values, c_args, r_vars, rq, cmp,
                   page_mode, trip>>

\* ResourceCollection.next: fetch when the buffer is empty, then pop the
\* oldest buffered resource or raise StopIteration.
next(z, status) ==
    LET got == IF c_resources = <<>>
               THEN get_resources(c_next, c_resources, c_size, c_values, z,
                                  status)
               ELSE [next |-> c_next, resources |-> c_resources,
                     size |-> c_size, exc |-> "none", status |-> 0,
                     sent |-> <<>>, requested |-> <<>>,
                     cached |-> cached_uris]
    IN /\ c_next' = got.next
       /\ c_size' = got.size
       /\ c_sent' = got.sent
       /\ requested' = requested \o got.requested
       /\ cached_uris' = got.cached
       /\ IF got.exc # "none"
          THEN /\ c_resources' = got.resources
               /\ c_out' = COut("next", got.exc, 0, got.status)
               /\ UNCHANGED yielded
          ELSE IF got.resources = <<>>
          THEN /\ c_resources' = got.resources
               /\ c_out' = COut("next", "StopIteration", 0, got.status)
               /\ UNCHANGED yielded
          ELSE /\ c_resources' = Tail(got.resources)
               /\ c_out' = COut("next", "none", Head(got.resources), got.status)
               /\ yielded' = Append(yielded, Head(got.resources))

\* The history of page requests is kept up to MaxRequests entries.
NextItem(z, status) ==
    /\ c_live
    /\ Len(requested) < MaxRequests \/ c_resources # <<>> \/ c_next = NoneNext
    /\ next(z, status)
    /\ UNCHANGED <<items, c_live, changed, c_fresh, c_values, c_args, r_vars,
                   rq, cmp, page_mode, stayed,
                   trip>>

\* The position of a filter among the filters, for the record of a read or
\* an assignment.
FilterIndex(f) ==
    CASE f = "groups" -> 1 [] f = "public" -> 2 [] f = "user" -> 3

\* The requests the getter of a filter makes: Link.to_python gets every
\* linked resource through the session.
filter_requests(f) ==
    LET link(u) == [method |-> "GET", uri |-> u, data |-> NoData,
                    range |-> NoRange]
        v == c_values[f]
    IN IF v.t = "none" THEN <<>>
       ELSE IF FieldType(f) = "Link" THEN <<link(v.e[1])>>
       ELSE IF FieldType(f) = "Set" /\ SetMember(f) = "Link"
       THEN [i \in DOMAIN v.e |-> link(v.e[i])]
       ELSE <<>>

\* The getter ResourceMeta installs for a filter of the collection.
filter_getter(f) == to_python(f, c_values[f])

\* Reading collection.f.
ReadFilter(f) ==
    /\ c_live
    /\ c_out' = COut("read", "none", FilterIndex(f), 0)
    /\ c_sent' = filter_requests(f)
    /\ UNCHANGED <<items, c_live, c_next, c_resources, c_size, yielded, changed,
                   c_fresh, c_values, c_args, requested, stayed, r_vars,
                   s_vars>>

\* collection.f = v: no filter is declared mutable, so its property has no
\* setter and the assignment raises AttributeError.
AssignFilter(f, v) ==
    /\ c_live
    /\ c_out' = COut("assign", "AttributeError", FilterIndex(f), 0)
    /\ c_sent' = <<>>
    /\ UNCHANGED <<items, c_live, c_next, c_resources, c_size, yielded, changed,
                   c_fresh, c_values, c_args, requested, stayed, r_vars,
                   s_vars>>

\* Another client deletes an item of the server's collection.
ServerDelete(i) ==
    /\ i \in items
    /\ changed < MaxChanges
    /\ items' = items \ {i}
    /\ stayed' = stayed \ {i}
    /\ changed' = changed + 1
    /\ c_out' = COut("server", "none", i, 0)
    /\ c_sent' = <<>>
    /\ UNCHANGED <<c_live, c_next, c_resources, c_size, yielded, c_fresh,
                   c_values, c_args, requested, r_vars, s_vars>>

\* Another client adds an item to the server's collection.
ServerInsert(i) ==
    /\ i \in (1..MaxItems) \ items
    /\ changed < MaxChanges
    /\ items' = items \cup {i}
    /\ changed' = changed + 1
    /\ c_out' = COut("server", "none", i, 0)
    /\ c_sent' = <<>>
    /\ UNCHANGED <<c_live, c_next, c_resources, c_size, yielded, c_fresh,
                   c_values, c_args, requested, stayed, r_vars, s_vars>>

\* No collection object yet; the server holds the items 1..n.
InitCollection ==
    /\ kind = "sample"
    /\ srv = [uri |-> Scalar(OwnUri), user |-> UriObject(1), name |-> Scalar(1),
              groups |-> List("dict", <<>>), added |-> Scalar(1)]
    /\ r_values = load_values(kind, srv)
    /\ r_dirty = {}
    /\ sent = <<>>
    /\ last = [op |-> "get", field |-> "-", value |-> None, exc |-> "none",
               pre |-> {}, same |-> FALSE, stale |-> {}]
    /\ assigned = FALSE
    /\ answered = <<>>
    /\ rq = NoCall
    /\ cached_uris = TRUE
    /\ cmp = NoComparison
    /\ page_mode = "range"
    /\ trip = NoTrip
    /\ c_values = NoFilters
    /\ c_args = NoFilters
    /\ c_sent = <<>>
    /\ requested = <<>>
    /\ stayed = {}
    /\ \E n \in 0..MaxItems : items = 1..n
    /\ c_live = FALSE
    /\ c_next = NoneNext
    /\ c_resources = <<>>
    /\ c_size = 0
    /\ c_out = COut("-", "none", 0, 0)
    /\ yielded = <<>>
    /\ changed = 0
    /\ c_fresh = TRUE

NextCollection ==
    \/ \E status \in PageStatuses :
           Construct(NoFilterArgs, Answer(TRUE, 200), status)
    \/ \E status \in PageStatuses : Reset(Answer(TRUE, 200), status)
    \/ \E status \in PageStatuses : NextItem(Answer(TRUE, 200), status)
    \/ \E i \in 1..MaxItems : ServerDelete(i)
    \/ \E i \in 1..MaxItems : ServerInsert(i)

SpecCollection == InitCollection /\ [][NextCollection]_vars

\* The collection over a server that also answers page requests with an
\* error.
NextFetch ==
    \/ \E status \in PageStatuses \cup PageErrors :
           Construct(NoFilterArgs, Answer(TRUE, 200), status)
    \/ \E status \in PageStatuses \cup PageErrors :
           Reset(Answer(TRUE, 200), status)
    \/ \E status \in PageStatuses \cup PageErrors :
           NextItem(Answer(TRUE, 200), status)
    \/ \E i \in 1..MaxItems : ServerDelete(i)
    \/ \E i \in 1..MaxItems : ServerInsert(i)

SpecFetch == InitCollection /\ [][NextFetch]_vars

\* The server or the network begins to treat page requests in another way.
SwitchMode(m) ==
    /\ m # page_mode
    /\ page_mode' = m
    /\ c_out' = COut("mode", "none", 0, 0)
    /\ c_sent' = <<>>
    /\ UNCHANGED <<items, c_live, c_next, c_resources, c_size, yielded, changed,
                   c_fresh, c_values, c_args, requested, stayed, r_vars, rq,
                   cached_uris, cmp, trip>>

\* The collection over a server whose collection does not change and whose
\* way of answering page requests does.
InitPages ==
    /\ InitCollection
    /\ Cardinality(items) <= cache_size + 1

NextPages ==
    \/ \E status \in {200, 404} :
           /\ ~c_live
           /\ Construct(NoFilterArgs, Answer(TRUE, 200), status)
    \/ \E status \in {200, 404} : Reset(Answer(TRUE, 200), status)
    \/ \E status \in {200, 404} : NextItem(Answer(TRUE, 200), status)
    \/ \E m \in {"range", "short", "norange", "down"} : SwitchMode(m)

SpecPages == InitPages /\ [][NextPages]_vars

\* One SampleCollection with filters, from its construction on, over a
\* server collection that does not change and has no item, one page of
\* items, or a page more.
InitFilters ==
    /\ InitCollection
    /\ Cardinality(items) <= cache_size + 1

NextFilters ==
    \/ \E args \in FilterArgs : \E status \in PageStatuses :
           /\ ~c_live
           /\ Construct(args, Answer(TRUE, 200), status)
    \/ \E status \in PageStatuses : Reset(Answer(TRUE, 200), status)
    \/ \E status \in PageStatuses : NextItem(Answer(TRUE, 200), status)
    \/ \E f \in Filters : ReadFilter(f)
    \/ \E f \in Filters : AssignFilter(f, Bool(TRUE))

SpecFilters == InitFilters /\ [][NextFilters]_vars

\* A new Session (_cached_uris = None) that holds one sample; no collection
\* object yet.
InitEndpoints ==
    /\ kind = "sample"
    /\ srv = [uri |-> Scalar(OwnUri), user |-> UriObject(1), name |-> Scalar(1),
              groups |-> List("dict", <<>>), added |-> Scalar(1)]
    /\ r_values = load_values(kind, srv)
    /\ r_dirty = {}
    /\ sent = <<Get("GET", OwnUri)>>
    /\ last = [op |-> "get", field |-> "-", value |-> None, exc |-> "none",
               pre |-> {}, same |-> FALSE, stale |-> {}]
    /\ assigned = FALSE
    /\ answered = <<Answer(TRUE, 200)>>
    /\ rq = NoCall
    /\ cached_uris = FALSE
    /\ cmp = NoComparison
    /\ page_mode = "range"
    /\ trip = NoTrip
    /\ \E n \in 0..(cache_size + 1) : items = 1..n
    /\ c_live = FALSE
    /\ c_next = NoneNext
    /\ c_resources = <<>>
    /\ c_size = 0
    /\ c_out = COut("-", "none", 0, 0)
    /\ yielded = <<>>
    /\ changed = 0
    /\ c_fresh = TRUE
    /\ c_values = NoFilters
    /\ c_args = NoFilters
    /\ c_sent = <<>>
    /\ requested = <<>>
    /\ stayed = {}

\* The operations that look up an endpoint: create, and the page fetches of
\* a collection.
NextEndpoints ==
    \/ \E args \in CreateArgs(kind) : \E z, x, y \in Answers :
           /\ cached_uris => z = Answer(TRUE, 200)
           /\ request(NoData, z).returned \/ x = z
           /\ request(NoData, x).returned \/ y = x
           /\ Create(args, z, x, y)
    \/ \E z \in Answers : \E status \in PageStatuses :
           /\ cached_uris => z = Answer(TRUE, 200)
           /\ ~c_live
           /\ Construct(NoFilterArgs, z, status)
    \/ \E z \in Answers : \E status \in PageStatuses :
           /\ cached_uris => z = Answer(TRUE, 200)
           /\ Reset(z, status)
    \/ \E z \in Answers : \E status \in PageStatuses :
           /\ cached_uris => z = Answer(TRUE, 200)
           /\ NextItem(z, status)

SpecEndpoints == InitEndpoints /\ [][NextEndpoints]_vars

\* The statuses of the error answers given to the requests of a resource,
\* and their bodies: the error object of the API, or something that is not
\* JSON.
ErrorAnswers ==
    {Answer(TRUE, st) : st \in {404, 406}}
        \cup {[Answer(TRUE, 404) EXCEPT !.resp.body = "notjson"]}

\* What a request of save() or refresh() can end with other than success:
\* an error answer, or a failure of the transport.
Failures == ErrorAnswers \cup {Answer(FALSE, 200)}

\* One sample and one collection of samples on a server that answers a
\* request with success or with an error; the endpoints are cached.
InitErrors ==
    /\ kind = "sample"
    /\ srv = [uri |-> Scalar(OwnUri), user |-> UriObject(1), name |-> Scalar(1),
              groups |-> List("dict", <<>>), added |-> Scalar(1)]
    /\ r_values = load_values(kind, srv)
    /\ r_dirty = {}
    /\ sent = <<Get("GET", OwnUri)>>
    /\ last = [op |-> "get", field |-> "-", value |-> None, exc |-> "none",
               pre |-> {}, same |-> FALSE, stale |-> {}]
    /\ assigned = FALSE
    /\ answered = <<Answer(TRUE, 200)>>
    /\ rq = NoCall
    /\ cached_uris = TRUE
    /\ cmp = NoComparison
    /\ page_mode = "range"
    /\ trip = NoTrip
    /\ items = 1..(cache_size + 1)
    /\ c_live = FALSE
    /\ c_next = NoneNext
    /\ c_resources = <<>>
    /\ c_size = 0
    /\ c_out = COut("-", "none", 0, 0)
    /\ yielded = <<>>
    /\ changed = 0
    /\ c_fresh = TRUE
    /\ c_values = NoFilters
    /\ c_args = NoFilters
    /\ c_sent = <<>>
    /\ requested = <<>>
    /\ stayed = {}

\* The operations that send a request, each answered with success or with
\* an error, and the assignment that makes save() send one.
NextErrors ==
    \/ \E x \in {Answer(TRUE, 200)} \cup ErrorAnswers : GetByUri(x)
    \/ SetField("name", Scalar(2))
    \/ \E x \in {Answer(TRUE, 200)} \cup Failures : Save(x)
    \/ \E x \in {Answer(TRUE, 200)} \cup Failures : Refresh(x)
    \/ \E args \in CreateArgs(kind) :
       \E x, y \in {Answer(TRUE, 200)} \cup ErrorAnswers :
           /\ request(NoData, x).returned \/ y = x
           /\ Create(args, Answer(TRUE, 200), x, y)
    \/ \E status \in {200, 404} :
           /\ ~c_live
           /\ Construct(NoFilterArgs, Answer(TRUE, 200), status)
    \/ \E status \in {200, 404} : Reset(Answer(TRUE, 200), status)
    \/ \E status \in {200, 404} : NextItem(Answer(TRUE, 200), status)

SpecErrors == InitErrors /\ [][NextErrors]_vars

----------------------------------------------------------------------------
(* Claims about Resource, checked under Spec.                                *)

\* The positions of the PATCH requests among the requests of the last
\* operation.
Patches == {i \in DOMAIN sent : sent[i].method = "PATCH"}

\* C1, as stated: after the assignment r.f = v of a mutable, non-hidden
\* field the resource is dirty and reading r.f gives a value equal to v.
C1_ReadsBackAssigned ==
    (last.op = "set" /\ last.exc = "none") =>
        /\ dirty
        /\ PyEq(getter(last.field), last.value)

\* C1, amended: after the assignment r.f = v of a mutable, non-hidden field
\* the resource is dirty, also when f already held v; reading r.f gives v
\* for a scalar field and for None, and for a Set field the frozenset of
\* the members of v (equal to v when v is a set, not when v is a list).
C1_ReadsBackConverted ==
    (last.op = "set" /\ last.exc = "none") =>
        /\ dirty
        /\ IF FieldType(last.field) = "Set" /\ last.value.t # "none"
           THEN getter(last.field) = FrozenSet(last.value.m, Range(last.value.e))
           ELSE PyEq(getter(last.field), last.value)

\* C1 witness: a list with a member was assigned to a Set field of a clean
\* resource that already held that list.
C1_Witness ==
    /\ last.op = "set" /\ last.exc = "none" /\ last.same
    /\ last.pre = {}
    /\ FieldType(last.field) = "Set" /\ last.value.t = "list"
    /\ last.value.e # <<>>
    /\ dirty

\* C2, as stated: save() on a dirty resource sends exactly one PATCH, to
\* the URI of the resource, whose body keys are the keys of the dirty
\* fields, and when it returns the dirty set is empty.
C2_SaveSendsDirtyFields ==
    (last.op = "save" /\ last.pre # {}) =>
        /\ Cardinality(Patches) = 1
        /\ \A i \in Patches :
              /\ sent[i].uri = OwnUri
              /\ DOMAIN sent[i].data = {Key(f) : f \in last.pre}
        /\ last.exc = "none" => r_dirty = {}

\* C3: a save() on a resource with an empty dirty set sends nothing, raises
\* nothing and leaves the values, the dirty set and the server untouched.
C3_SaveCleanIsNoOp ==
    [][(last'.op = "save" /\ r_dirty = {}) =>
          /\ sent' = <<>>
          /\ last'.exc = "none"
          /\ r_values' = r_values
          /\ r_dirty' = r_dirty
          /\ srv' = srv]_vars

\* C3 witness: save() was called on a clean resource.
C3_Witness ==
    last.op = "save" /\ last.pre = {} /\ sent = <<>> /\ ~dirty

\* C4: the resource is not dirty right after it was loaded, created, saved
\* or refreshed, and at any time it is dirty exactly when a mutable field was
\* assigned since the last of these.
C4_DirtyIffAssigned ==
    /\ (last.op \in {"get", "create", "save", "refresh"} /\ last.exc = "none")
           => ~dirty
    /\ dirty <=> assigned

\* C4 witness: a refresh() returned on a resource that was dirty.
C4_Witness ==
    last.op = "refresh" /\ last.exc = "none" /\ last.pre # {} /\ ~dirty

----------------------------------------------------------------------------
(* Claims about ResourceCollection, checked under SpecCollection.           *)

\* What an iteration that meets no change of the server's collection has
\* to show after each next(): an item that continues the server's order, or
\* the end of the sequence once every item was yielded.
IteratesListing ==
    \/ /\ c_out.exc = "none"
       /\ Len(yielded) <= Len(Listing)
       /\ yielded = SubSeq(Listing, 1, Len(yielded))
       /\ c_out.item = yielded[Len(yielded)]
    \/ /\ c_out.exc = "StopIteration"
       /\ yielded = Listing

\* C6, as stated: over a server collection of N items that does not change,
\* constructing a Collection succeeds and gives size = N before the first
\* next(), and iterating the fresh Collection yields the N items, each
\* once, in server order, and then signals the end of the sequence.
C6_FreshIterationYieldsAll ==
    /\ c_out.op = "construct" =>
           /\ c_out.exc = "none"
           /\ c_live
           /\ c_size = Cardinality(items)
    /\ (c_live /\ c_fresh /\ changed = 0 /\ c_out.op = "next") =>
           IteratesListing

\* C7, as stated: reset() ends with an empty list of yielded items, the
\* first page of the server's collection as it is now in the buffer, the
\* cursor behind that page and size = the present total; iterating after
\* it yields the server's collection; whatever the state before the reset.
C7_ResetRestarts ==
    /\ c_out.op = "reset" =>
           /\ c_out.exc = "none"
           /\ c_size = Cardinality(items)
           /\ c_resources = SubSeq(Listing, 1, Min(cache_size, Len(Listing)))
           /\ c_next = IF cache_size < Len(Listing) THEN cache_size
                       ELSE NoneNext
    /\ (c_live /\ ~c_fresh /\ changed = 0 /\ c_out.op = "next") =>
           IteratesListing

\* C8, as stated: when the server answers the page request of a
\* construction, a reset() or a next() with 416, no error reaches the
\* caller (a next() on the drained buffer signals the end of the sequence),
\* the cursor is None (EXHAUSTED) and size is 0.
C8_UnsatisfiableRangeExhausts ==
    c_out.status = 416 =>
        /\ c_out.exc = (IF c_out.op = "next" THEN "StopIteration" ELSE "none")
        /\ c_next = NoneNext
        /\ c_size = 0

----------------------------------------------------------------------------
(* Claims about Session.request, checked under SpecRequest.                 *)

\* The statuses the claims call a success.
SuccessStatuses == {200, 201, 202, 206}

\* C9, as stated: when the transport delivers a response, request returns
\* it unmodified exactly when its status is 200, 201, 202 or 206.
C9_ReturnsOnSuccessStatus ==
    (rq.called /\ rq.ok) =>
        /\ rq.out.returned <=> rq.resp.status \in SuccessStatuses
        /\ rq.out.returned => (rq.out.exc = "none" /\ rq.out.response = rq.resp)

\* The table of the claims from status to exception kind.
ErrorTable(status) ==
    CASE status = 400 -> "BadRequestError"
      [] status = 401 -> "UnauthorizedError"
      [] status = 403 -> "ForbiddenError"
      [] status = 404 -> "NotFoundError"
      [] status = 406 -> "NotAcceptableError"
      [] status = 416 -> "UnsatisfiableRangeError"
      [] OTHER -> "ApiError"

\* C10, as stated: for a response with a non-success status and a body
\* {"error": {"code": c, "message": m}}, request raises the exception kind
\* the table assigns to the status, with code = c and message = m.
C10_RaisesByTable ==
    (rq.called /\ rq.ok /\ rq.resp.body = "error"
        /\ rq.resp.status \notin SuccessStatuses) =>
        /\ ~rq.out.returned
        /\ rq.out.exc = ErrorTable(rq.resp.status)
        /\ rq.out.code = [src |-> "body", v |-> rq.resp.code]
        /\ rq.out.message = [src |-> "body", v |-> rq.resp.message]

\* C11, as stated: for a response with a non-success status whose body is
\* not JSON, or is JSON without the error, code and message keys, request
\* raises the exception kind of the status with the reason phrase as code
\* and the first 78 characters of the body as message.
C11_FallsBackToReasonAndText ==
    (rq.called /\ rq.ok /\ rq.resp.body \in {"notjson", "nokeys"}
        /\ rq.resp.status \notin SuccessStatuses) =>
        /\ ~rq.out.returned
        /\ rq.out.exc = ErrorTable(rq.resp.status)
        /\ rq.out.code = [src |-> "reason", v |-> rq.resp.status]
        /\ rq.out.message =
               [src |-> "text", v |-> Min(rq.resp.len, MessageLimit)]

\* C12: when the transport fails, request raises the transport's exception
\* as it is, without code or message of an ApiError, after one call of the
\* transport.
C12_TransportFailureReraised ==
    (rq.called /\ ~rq.ok) =>
        /\ ~rq.out.returned
        /\ rq.out.exc = "RequestException"
        /\ rq.out.code = NoInfo /\ rq.out.message = NoInfo
        /\ rq.out.attempts = 1

\* C12 witness: request was called and the transport failed on an exchange
\* whose response, had it arrived, would have been an error response.
C12_Witness ==
    /\ rq.called /\ ~rq.ok /\ rq.resp.status = 404
    /\ rq.out.exc = "RequestException"

----------------------------------------------------------------------------
(* More claims about Resource, checked under Spec.                          *)

\* C13: after a refresh() that returned, every field holds the server's
\* present value, also the fields that were dirty, and the resource is not
\* dirty.
C13_RefreshOverwritesAll ==
    (last.op = "refresh" /\ last.exc = "none") =>
        /\ \A f \in FieldsOf(kind) :
               /\ r_values[f] = srv[Key(f)]
               /\ getter(f) = to_python(f, srv[Key(f)])
        /\ ~dirty

\* C13 witness: a refresh() returned on a resource with a dirty field whose
\* local value was not the server's.
C13_Witness ==
    /\ last.op = "refresh" /\ last.exc = "none"
    /\ last.pre \cap last.stale # {}
    /\ ~dirty

\* C14, as stated: refresh(skip_dirty=True) returns, leaves the dirty
\* fields dirty and every field that was not dirty with the server's value.
C14_RefreshSkipsDirty ==
    last.op = "refresh_skip_dirty" =>
        /\ last.exc = "none"
        /\ r_dirty = last.pre
        /\ \A f \in FieldsOf(kind) \ last.pre : r_values[f] = srv[Key(f)]

C16_SaveTakesServerValues ==
    (last.op = "save" /\ last.exc = "none" /\ Cardinality(last.pre) = 1
        /\ last.stale \ last.pre # {}) =>
        /\ \A f \in FieldsOf(kind) : r_values[f] = srv[Key(f)]
        /\ ~dirty

\* C17, as stated: save() on a dirty resource sends a PATCH, and every
\* value in its body is the stored wire value of the field, not the value
\* of the getter.
C17_PatchHoldsWireValues ==
    (last.op = "save" /\ last.pre # {}) =>
        /\ last.exc # "TypeError"
        /\ \A i \in Patches : \A f \in last.pre :
               /\ Key(f) \in DOMAIN sent[i].data
               /\ sent[i].data[Key(f)] = r_values[f]

\* C18, as stated: save_fields(f=v) returns, the server holds v for f, f
\* reads back as v, the dirty set is what it was, and every field that is
\* neither f nor dirty holds the server's value.
C18_SaveFieldsSendsGiven ==
    last.op = "save_fields" =>
        /\ last.exc = "none"
        /\ srv[Key(last.field)] = from_python(last.field, last.value)
        /\ PyEq(getter(last.field), last.value)
        /\ r_dirty = last.pre
        /\ \A f \in FieldsOf(kind) \ (last.pre \cup {last.field}) :
               r_values[f] = srv[Key(f)]

\* The fields a caller of create passed: the name (and the login of a
\* user), and the Set field of the kind when members were given.
PassedFields ==
    (IF kind = "sample" THEN {"name"} ELSE {"login", "name"})
        \cup (IF last.value.t = "none" THEN {} ELSE {SetFieldOf(kind)})

\* C19, as stated: a create that returned issued one POST to the collection
\* of the kind, with exactly the passed fields as wire keys and stored
\* (wire) values, then one GET of the Location; the resource holds the
\* values of that GET and is not dirty.
C19_CreatePostsPassedFields ==
    (last.op = "create" /\ last.exc = "none") =>
        /\ Len(sent) = 2
        /\ sent[1].method = "POST" /\ sent[1].uri = CollectionUri
        /\ DOMAIN sent[1].data = {Key(f) : f \in PassedFields}
        /\ \A f \in PassedFields \cap DOMAIN sent[1].data :
               sent[1].data[Key(f)] = r_values[f]
                   \/ (FieldType(f) = "Set" /\ sent[1].data[Key(f)].e = r_values[f].e)
        /\ sent[2] = Get("GET", OwnUri)
        /\ r_values = load_values(kind, srv)
        /\ ~dirty

\* C20: r.f.add(a) on a Set field raises AttributeError and leaves the
\* stored values and the dirty set as they were; assigning a collection to
\* the field stores its members, reads back as the frozenset of them and
\* marks the field dirty.
C20_SetMutationDiscipline ==
    [][/\ (last'.op = "add") =>
              /\ last'.exc = "AttributeError"
              /\ r_values' = r_values
              /\ r_dirty' = r_dirty
       /\ (last'.op = "set" /\ FieldType(last'.field) = "Set"
              /\ last'.value.t # "none") =>
              /\ to_python(last'.field, r_values'[last'.field]) =
                     FrozenSet(last'.value.m, Range(last'.value.e))
              /\ Range(r_values'[last'.field].e) \subseteq Members
              /\ last'.field \in r_dirty']_vars

\* C20 witness: add was tried on the roles a clean user holds, which are
\* not empty.
C20_Witness ==
    /\ last.op = "add" /\ last.field = "roles" /\ last.exc = "AttributeError"
    /\ r_values["roles"].t = "list" /\ r_values["roles"].e # <<>>
    /\ ~dirty

----------------------------------------------------------------------------
(* Claims about the comparison of Resources, checked under SpecEquality.    *)

\* C21, as stated: a == b is true exactly when both URIs are non-empty and
\* equal, whatever the other fields hold, and a != b is true exactly when
\* a == b is not.
C21_EqualByUri ==
    cmp.called =>
        /\ Truthy(cmp.eq) <=>
               /\ cmp.a.values["uri"] \notin {None, EmptyString}
               /\ cmp.b.values["uri"] \notin {None, EmptyString}
               /\ cmp.a.values["uri"] = cmp.b.values["uri"]
        /\ Truthy(cmp.ne) <=> ~Truthy(cmp.eq)

----------------------------------------------------------------------------
(* Claims about the filters of a collection, checked under SpecFilters.     *)

\* What the page requests of the last operation carry: exactly the filters
\* given with a value that is not None, as API values.
CarriesFilters ==
    \A i \in DOMAIN c_sent :
        c_sent[i].uri = CollectionUri =>
            /\ DOMAIN c_sent[i].data = {f \in Filters : c_args[f] # None}
            /\ \A f \in DOMAIN c_sent[i].data :
                   c_sent[i].data[f] = from_python(f, c_args[f])

\* C22, as stated: each filter attribute reads back the value given to the
\* constructor (None when none was given), assigning to it raises
\* AttributeError and changes nothing, and every page request, also after
\* reset(), carries exactly the filters whose value is not None.
C22_FiltersFixed ==
    /\ c_live => \A f \in Filters : PyEq(filter_getter(f), c_args[f])
    /\ c_out.op = "assign" => c_out.exc = "AttributeError"
    /\ c_values = [f \in Filters |-> from_python(f, c_args[f])]
    /\ CarriesFilters

\* C22, amended: each filter attribute reads back the value given to the
\* constructor, where groups given as a list or a set read back as the
\* frozenset of the given members; assigning to a filter raises
\* AttributeError and changes nothing; every page request, also after
\* reset(), carries exactly the filters whose value is not None.
C22_FiltersFixedConverted ==
    /\ c_live => \A f \in Filters :
           IF FieldType(f) = "Set" /\ c_args[f] # None
           THEN filter_getter(f) = FrozenSet(c_args[f].m, Range(c_args[f].e))
           ELSE PyEq(filter_getter(f), c_args[f])
    /\ c_out.op = "assign" => c_out.exc = "AttributeError"
    /\ c_values = [f \in Filters |-> from_python(f, c_args[f])]
    /\ CarriesFilters

\* C22 witness: a reset() of a collection that was constructed with a list
\* of groups and public = False, and without user, sent its page request.
C22_Witness ==
    /\ c_live /\ c_out.op = "reset"
    /\ c_args["groups"] = List("resource", <<1>>)
    /\ c_args["public"] = Bool(FALSE)
    /\ c_args["user"] = None
    /\ \E i \in DOMAIN c_sent : c_sent[i].uri = CollectionUri

----------------------------------------------------------------------------
(* Claims about the endpoints of a Session, checked under SpecEndpoints.    *)

\* A root request is among the requests q.
RootIn(q) == \E i \in DOMAIN q : q[i].uri = RootUri

----------------------------------------------------------------------------
(* Claims about the task of a resource, checked under SpecTask.             *)

\* C24, as stated: task.wait_and_monitor() returns a generator, which then
\* yields None at each poll while the task is waiting or running, 100 once
\* the task succeeded, and ends.
C24_WaitAndMonitorPolls ==
    last.op = "wait_and_monitor" => last.exc = "none"

\* C25, as stated: reading a flag of the task returns, and gives true
\* exactly for the flag of the state the resource last loaded (so that no
\* two flags are true together); reading error returns; resubmit()
\* returns.
C25_TaskFlagsFollowState ==
    /\ last.op = "task_attribute" =>
           /\ last.exc = "none"
           /\ last.value.m \in TaskStates =>
                  last.value.e =
                      <<IF r_values["task"].e[1] = TaskIndex(last.value.m)
                        THEN 1 ELSE 0>>
    /\ last.op = "resubmit" => last.exc = "none"

----------------------------------------------------------------------------
(* Claims about the cursor of a collection, checked under SpecFetch and     *)
(* SpecCollection.                                                          *)

\* The last collection operation requested a page and the server answered
\* with the page and its Content-Range: a successful fetch.
PageAnswered ==
    /\ c_out.op \in {"construct", "reset", "next"}
    /\ c_out.status \in PageStatuses

\* After a successful fetch the cursor is None when the reported stop is not
\* below the reported total, else the offset of the fetch plus the page
\* size.
CursorFollowsContentRange ==
    PageAnswered =>
        LET first == requested[Len(requested)].first
            total == Len(Listing)
            stop == Min(first + cache_size, total)
        IN c_next = IF stop < total THEN first + cache_size ELSE NoneNext

\* C26, as stated: within one life of the cursor the windows [0,P),
\* [P,2P), ... are requested in strictly increasing order, each at most
\* once, and after a successful fetch the cursor is exhausted or a page
\* further.
C26_WindowsOnceInOrder ==
    /\ \A i \in DOMAIN requested : requested[i].first = (i - 1) * cache_size
    /\ CursorFollowsContentRange

\* C27: on a collection whose cursor is None and whose buffer is empty,
\* next() raises StopIteration, sends no request, yields nothing and
\* leaves the cursor and the buffer as they are.
C27_ExhaustedStaysExhausted ==
    [][(c_live /\ c_next = NoneNext /\ c_resources = <<>>
           /\ c_out'.op = "next") =>
          /\ c_out'.exc = "StopIteration"
          /\ c_sent' = <<>>
          /\ requested' = requested
          /\ yielded' = yielded
          /\ c_next' = NoneNext
          /\ c_resources' = <<>>]_vars

\* C27 witness: next() raised StopIteration without a request on a
\* collection that had yielded the items of more than one page.
C27_Witness ==
    /\ c_live /\ c_next = NoneNext /\ c_resources = <<>>
    /\ c_out.op = "next" /\ c_out.exc = "StopIteration" /\ c_sent = <<>>
    /\ Len(yielded) > cache_size

\* C28, as stated: a page fetch that the server answered with a page sets
\* size to the total of that answer's Content-Range, which is the number
\* of items the server holds then.
C28_SizeIsLastTotal ==
    [][(c_out'.op \in {"construct", "reset", "next"}
           /\ c_out'.status \in PageStatuses) =>
          c_size' = Cardinality(items')]_vars

\* C29, as stated: over a server collection of N items that does not
\* change, the construction returns, every next() returns an item or
\* signals the end, the end comes after exactly N items, and by then
\* max(1, ceil(N / P)) page requests were sent, the one of the
\* construction included.
C29_IterationTerminates ==
    /\ c_out.op = "construct" => c_out.exc = "none"
    /\ (c_live /\ changed = 0 /\ c_out.op = "next") =>
           /\ c_out.exc \in {"none", "StopIteration"}
           /\ c_out.exc = "none" => Len(yielded) <= Len(Listing)
           /\ c_out.exc = "StopIteration" =>
                  /\ Len(yielded) = Len(Listing)
                  /\ Len(requested) =
                         LET pages == (Len(Listing) + cache_size - 1)
                                          \div cache_size
                         IN IF pages < 1 THEN 1 ELSE pages

----------------------------------------------------------------------------
(* A claim about error answers, checked under SpecErrors.                   *)

\* The transport delivered x and its status is not a success: an API error
\* answer.
IsErrorAnswer(x) == x.ok /\ x.resp.status \notin SuccessStatuses

\* C30, as stated: when the request of a get by URI, a create, a save() or
\* a refresh() is answered with an API error, the operation raises the
\* exception kind the table assigns to the status, and the request that
\* got the answer was sent once and is the last one sent; when a page
\* request of a collection is answered with an API error other than 416,
\* the construction, reset() or next() raises that kind and sent the one
\* page request.
C30_ApiErrorReachesCaller ==
    /\ (last.op \in {"get", "create", "save", "refresh"}
           /\ answered # <<>>
           /\ IsErrorAnswer(answered[Len(answered)])) =>
           /\ last.exc = ErrorTable(answered[Len(answered)].resp.status)
           /\ sent # <<>>
           /\ Cardinality({i \in DOMAIN sent : sent[i] = sent[Len(sent)]}) = 1
    /\ (c_out.op \in {"construct", "reset", "next"}
           /\ c_out.status \notin SuccessStatuses \cup {0, 416}) =>
           /\ c_out.exc = ErrorTable(c_out.status)
           /\ Len(c_sent) = 1

\* C31: a save() or a refresh() whose request was answered with an error or
\* failed in the transport leaves the dirty set and every stored value as
\* they were, so the data a later save() sends is the same.
C31_FailureKeepsState ==
    [][(last'.op \in {"save", "refresh"} /\ last'.exc # "none") =>
          /\ r_dirty' = r_dirty
          /\ r_values' = r_values
          /\ save_data' = save_data]_vars

\* C31 witness: a save() of a dirty resource failed, once by an error
\* answer or by the transport, and the assigned name is still dirty.
C31_Witness ==
    /\ last.op = "save"
    /\ last.exc \in {"NotFoundError", "RequestException"}
    /\ answered # <<>>
    /\ r_dirty = {"name"}
    /\ r_values["name"] = Scalar(2)

----------------------------------------------------------------------------
(* Claims about a collection whose server changes or answers in parts,     *)
(* checked under SpecCollection and SpecPages.                              *)

\* How often next() returned the item i since the construction or the last
\* reset().
TimesYielded(i) == Cardinality({k \in DOMAIN yielded : yielded[k] = i})

\* C33, as stated: an item the server's collection held during the whole
\* iteration is never yielded twice, and when the iteration has signalled
\* its end it was yielded once, whatever was inserted or deleted between
\* two page fetches.
C33_StayingItemYieldedOnce ==
    c_live =>
        /\ \A i \in stayed : TimesYielded(i) <= 1
        /\ (c_out.op = "next" /\ c_out.exc = "StopIteration") =>
               \A i \in stayed : TimesYielded(i) = 1

\* The items yielded and the items buffered are, in this order, the
\* beginning of the server's listing.
InListingOrder ==
    LET got == yielded \o c_resources
    IN /\ Len(got) <= Len(Listing)
       /\ got = SubSeq(Listing, 1, Len(got))

\* C32, as stated: a next() whose page fetch ends with an exception, the
\* answer not being 416, leaves cursor, buffer and size as they were; a
\* reset() whose fetch ends so leaves the cursor at 0, the buffer empty and
\* the size as it was; and over a server collection that does not change no
\* item is skipped or repeated afterwards.
C32_FailedFetchKeepsCursor ==
    [][/\ (c_out'.op = "next" /\ c_out'.exc \notin {"none", "StopIteration"}
              /\ c_out'.status # 416) =>
              (c_next' = c_next /\ c_resources' = c_resources
                  /\ c_size' = c_size)
       /\ (c_out'.op = "reset" /\ c_out'.exc # "none"
              /\ c_out'.status # 416) =>
              (c_next' = 0 /\ c_resources' = <<>> /\ c_size' = c_size)
       /\ (c_live' /\ page_mode' # "short") => InListingOrder']_vars

\* C34, as stated: over a server collection that does not change, whatever
\* part of the window the server returns, the items yielded and buffered
\* are the beginning of the listing with none skipped or repeated; and
\* after a fetch that was answered with fewer items than the window and
\* the collection hold, the cursor is the stop the answer reported.
C34_CursorFollowsReportedStop ==
    (c_live /\ page_mode \in {"range", "short"}) =>
        /\ InListingOrder
        /\ (PageAnswered /\ c_out.exc = "none" /\ page_mode = "short") =>
               LET first == requested[Len(requested)].first
                   stop == first + ServerPageSize
               IN (stop < first + cache_size /\ stop < Len(Listing)) =>
                      c_next = stop

\* C35, as stated: constructing a collection over an empty server listing
\* succeeds and gives size 0, and the first next() on it raises
\* StopIteration and nothing else.
C35_EmptyListingEndsAtOnce ==
    (items = {} /\ changed = 0) =>
        /\ c_out.op = "construct" =>
               (c_out.exc = "none" /\ c_live /\ c_size = 0)
        /\ (c_live /\ c_out.op = "next") =>
               (c_out.exc = "StopIteration" /\ c_size = 0 /\ yielded = <<>>)

----------------------------------------------------------------------------
(* A claim about the encoding of request data, checked under SpecEncoding. *)

\* C36, as stated: a request with data and without a file payload (files
\* not passed, or passed as None) sends the data as JSON with the JSON
\* content type; a request with data and a file payload sends them as the
\* fields of a multipart form.
C36_JsonUnlessFilePayload ==
    (rq.called /\ rq.data) =>
        IF rq.files = "payload"
        THEN rq.wire.body = "multipart"
        ELSE rq.wire = [body |-> "json", content_type |-> "application/json"]

----------------------------------------------------------------------------
(* Claims about assignments, checked under SpecAssign.                      *)

\* C37, as stated: assigning to a name that is no declared field of the
\* kind raises AttributeError and leaves the stored values and the dirty
\* set as they were.
C37_UndeclaredRejected ==
    [][last'.op = "set_undeclared" =>
          /\ last'.exc = "AttributeError"
          /\ r_values' = r_values
          /\ r_dirty' = r_dirty]_vars

\* C38, as stated: an assignment to a mutable field that raises because
\* the value cannot be converted leaves the dirty set and the stored
\* values as they were.
C38_FailedConversionKeepsState ==
    [][(last'.op = "set" /\ Mutable(last'.field) /\ last'.exc # "none") =>
          /\ r_dirty' = r_dirty
          /\ r_values' = r_values]_vars

\* C39: the dirty set holds only fields that are mutable and not hidden,
\* the stored values have exactly one entry for every declared field of
\* the kind, and a field that cannot be assigned and has no key in the
\* server's representation holds its default.
C39_DirtyMutableValuesComplete ==
    /\ DOMAIN r_values = FieldsOf(kind)
    /\ r_dirty \subseteq {f \in FieldsOf(kind) : Mutable(f) /\ ~Hidden(f)}
    /\ \A f \in FieldsOf(kind) :
           (Key(f) \notin DOMAIN srv /\ (Hidden(f) \/ ~Mutable(f))) =>
               r_values[f] = Default(f)

\* C39 witness: the hidden field name of an annotation was assigned; it is
\* not dirty and its stored value is the default the representation, which
\* has no such key, left it with.
C39_Witness ==
    /\ kind = "annotation"
    /\ last.op = "set" /\ last.field = "name" /\ last.exc = "none"
    /\ "name" \notin DOMAIN srv
    /\ r_dirty = {}
    /\ r_values["name"] = Default("name")

\* C40: a Python value of a String, DateTime, Queries or Set-of-scalars
\* field that is converted to its API value and back compares equal to
\* itself, and None is converted to None in both directions.
C40_RoundTrip ==
    trip.stage = "local" =>
        /\ PyEq(trip.back, trip.x)
        /\ trip.x = None => trip.wire = None
        /\ trip.wire = None => trip.back = None

\* C40 witness: an aware datetime with microseconds came back from its ISO
\* string as another object, with dateutil's tzinfo.
C40_Witness ==
    /\ trip.stage = "local"
    /\ trip.x = DateTime(1, 1, "FixedOffset1")
    /\ trip.wire = [t |-> "scalar", m |-> "+01:00", e |-> <<1, 1>>]
    /\ trip.back = DateTime(1, 1, "tzoffset1")

====
